---- MODULE Spec2Model ----
(***************************************************************************)
(* KipSQL storage layer: KipTransaction (src/storage/kip.rs) over the      *)
(* kip_db MVCC key-value transaction, with the table codec and the catalog *)
(* it calls.                                                               *)
(***************************************************************************)
EXTENDS Integers, Sequences, FiniteSets, TLC

\* ------------------------------------------------------------------ bounds
\* primary-key values (and index key values) written by calls range over 0..MaxKey
MaxKey == 1
\* largest key of the tables that index scans start from
MaxScanKey == 4
\* write calls that take effect in one run
MaxOps == 4
\* operators on the child(0) path of a logical Select plan
MaxChain == 3
\* plan ids one PhysicalPlanBuilder hands out in one run
MaxPlanId == 6
\* aggregate calls, and group-by expressions, one binder context holds
MaxRefs == 3

\* ---------------------------------------------------------------- universe
Tables == {"t1", "t2"}
TableSeq == <<"t1", "t2">>
Txs == {1, 2}
SeqTxs == {1}
IterIds == {1, 2}
SeqIters == {1}
KeyVals == 0..MaxKey
\* every key value the key space has room for
MaxStored == IF MaxKey > MaxScanKey THEN MaxKey ELSE MaxScanKey
StoredVals == 0..MaxStored
PosSeq == <<0, 1>>

\* ColumnCatalog values handed to create_table (id not yet assigned: -1)
Col(n, pk, uq) == [id |-> -1, name |-> n, is_primary |-> pk, is_unique |-> uq]
ColsA == <<Col("a", TRUE, FALSE), Col("b", FALSE, FALSE)>>
ColsB == <<Col("a", TRUE, FALSE), Col("b", FALSE, TRUE)>>
ColsDup == <<Col("a", TRUE, FALSE), Col("a", FALSE, FALSE)>>
ColumnLists == {ColsA, ColsB, ColsDup}

\* ------------------------------------------------- MVCC key-value substrate
\* An entry of the ordered key space: never written, removed, or a value.
Range(seq) == {seq[n] : n \in 1..Len(seq)}

NoEntry == [k |-> "none", v |-> <<>>]
Tombstone == [k |-> "tomb", v |-> <<>>]
Value(v) == [k |-> "val", v |-> v]

\* ------------------------------------------------------------- table codec
RootKey(T) == <<"Root", T>>
ColKey(T, cid) == <<"Col", T, cid>>
IdxMetaKey(T, iid) == <<"IdxMeta", T, iid>>
TupleKey(T, id) == <<"Tuple", T, id>>
IdxKey(T, iid, v) == <<"Idx", T, iid, v>>

Keys ==
    {RootKey(T) : T \in Tables}
    \cup {ColKey(T, c) : T \in Tables, c \in 0..1}
    \cup {IdxMetaKey(T, i) : T \in Tables, i \in 0..1}
    \cup {TupleKey(T, id) : T \in Tables, id \in StoredVals}
    \cup {IdxKey(T, i, v) : T \in Tables, i \in 0..1, v \in StoredVals}

EmptyKV == [k \in Keys |-> NoEntry]

\* the inclusive ranges of the five families, as the keys in scan order
root_table_bound == [i \in 1..Len(TableSeq) |-> RootKey(TableSeq[i])]
columns_bound(T) == [i \in 1..2 |-> ColKey(T, PosSeq[i])]
index_meta_bound(T) == [i \in 1..2 |-> IdxMetaKey(T, PosSeq[i])]
tuple_bound(T) == [i \in 1..(MaxStored + 1) |-> TupleKey(T, i - 1)]
all_index_bound(T) ==
    [i \in 1..(2 * (MaxStored + 1)) |->
        IdxKey(T, (i - 1) \div (MaxStored + 1), (i - 1) % (MaxStored + 1))]

encode_root_table_key(T) == RootKey(T)
encode_root_table(T) == <<RootKey(T), <<T>>>>
decode_root_table(bytes) == bytes[1]

encode_column(T, col) ==
    <<ColKey(T, col.id), <<col.id, col.name, col.is_primary, col.is_unique>>>>
decode_column(bytes) ==
    [id |-> bytes[1], name |-> bytes[2], is_primary |-> bytes[3], is_unique |-> bytes[4]]

encode_index_meta(T, meta) ==
    <<IdxMetaKey(T, meta.id),
      <<meta.id, meta.column_ids, meta.name, meta.is_unique, meta.is_primary>>>>
decode_index_meta(bytes) ==
    [id |-> bytes[1], column_ids |-> bytes[2], name |-> bytes[3],
     is_unique |-> bytes[4], is_primary |-> bytes[5]]

encode_tuple_key(T, id) == TupleKey(T, id)
encode_tuple(T, tuple) == <<TupleKey(T, tuple.id), tuple.values>>

PrimaryPos(columns) ==
    LET ps == {i \in 1..Len(columns) : columns[i].is_primary}
    IN IF ps = {} THEN 0 ELSE CHOOSE i \in ps : \A j \in ps : i <= j

decode_tuple(columns, bytes) ==
    [id |-> IF PrimaryPos(columns) = 0 THEN -1 ELSE bytes[PrimaryPos(columns)],
     values |-> bytes]

encode_index_key(T, index) == IdxKey(T, index.id, index.column_values[1])
encode_index(T, index, tuple_ids) == <<encode_index_key(T, index), tuple_ids>>
decode_index(bytes) == bytes

\* ----------------------------------------------------------------- catalog
NoCatalog == [ok |-> FALSE, columns |-> <<>>, indexes |-> <<>>]

ColNames(columns) == {columns[i].name : i \in 1..Len(columns)}

\* TableCatalog::new: columns get dense ids in declaration order; an empty
\* column list or a repeated column name is a CatalogError.
TableCatalog_new(columns) ==
    IF Len(columns) = 0 \/ Cardinality(ColNames(columns)) # Len(columns)
    THEN NoCatalog
    ELSE [ok |-> TRUE,
          columns |-> [i \in 1..Len(columns) |-> [columns[i] EXCEPT !.id = i - 1]],
          indexes |-> <<>>]

TableCatalog_new_with_indexes(columns, indexes) ==
    LET c == TableCatalog_new(columns)
    IN IF c.ok THEN [c EXCEPT !.indexes = indexes] ELSE NoCatalog

\* TableCatalog::add_index_meta: the id is the position in the index list
add_index_meta(table, meta) ==
    [table EXCEPT !.indexes = Append(@, [meta EXCEPT !.id = Len(table.indexes)])]

all_columns(table) == table.columns

is_index(col) == col.is_unique \/ col.is_primary

\* ------------------------------------------------------------------- state
VARIABLES
    store,   \* committed key space of the kip_db storage
    tx,      \* KipTransaction handles: MVCC snapshot, write buffer, catalog cache
    iters,   \* KipIter cursors returned by read
    index_iters, \* IndexIter cursors returned by read_by_index
    ops,     \* number of write calls so far that changed a write buffer
    last,    \* the last call and what it returned
    binder,  \* the Binder: its BinderContext and what bind returned
    builder, \* the PhysicalPlanBuilder: its plan_id and what build_plan returned
    ghost    \* what the calls so far say the tables hold (history, not program state)

vars == <<store, tx, iters, index_iters, ops, last, binder, builder, ghost>>

NoCache == [T \in Tables |-> NoCatalog]

IdleTx == [active |-> FALSE, snap |-> EmptyKV, buf |-> EmptyKV,
           cache |-> NoCache, stale |-> {}]

IdleIter == [open |-> FALSE, t |-> 0, tbl |-> "", offset |-> 0, limit |-> -1,
             bounds |-> <<-1, -1>>, projections |-> <<>>, all_columns |-> <<>>,
             pos |-> 1, out |-> <<>>, done |-> FALSE]

\* Bound<value> of a Scope, and the two ConstantBinary shapes
Unbounded == [b |-> "Unbounded", v |-> 0]
Included(v) == [b |-> "Included", v |-> v]
Excluded(v) == [b |-> "Excluded", v |-> v]
Eq(v) == [kind |-> "Eq", v |-> v, min |-> Unbounded, max |-> Unbounded]
Scope(min, max) == [kind |-> "Scope", v |-> 0, min |-> min, max |-> max]

NoScopeIter == [open |-> FALSE, range |-> <<>>, pos |-> 1]

IdleIndexIter ==
    [open |-> FALSE, t |-> 0, tbl |-> "", offset |-> 0, limit |-> -1,
     bounds |-> <<-1, -1>>, projections |-> <<>>, index_meta |-> <<>>,
     table |-> NoCatalog, index_values |-> <<>>, binaries |-> <<>>,
     scope_iter |-> NoScopeIter, asked |-> <<>>, out |-> <<>>, done |-> FALSE]

NoRows == [id \in StoredVals |-> <<>>]
NoIdx == [ik \in (0..1) \X StoredVals |-> <<>>]
EmptyGhost ==
    [made |-> [T \in Tables |-> [there |-> FALSE, cols |-> <<>>]],
     rows |-> [T \in Tables |-> NoRows],
     idx |-> [T \in Tables |-> NoIdx]]

\* BinderContext::new: nothing bound, no alias, no aggregate; the maps are
\* functions from the registered names
NewContext ==
    [bind_table |-> <<>>, aliases |-> <<>>, table_aliases |-> <<>>,
     group_by_exprs |-> <<>>, agg_calls |-> <<>>]

BindCall(op, arg, res, plan) == [op |-> op, arg |-> arg, res |-> res, plan |-> plan]

\* Binder::new over a new context; bind takes the binder by value
NewBinder ==
    [context |-> NewContext, consumed |-> FALSE, ret |-> BindCall("new", <<>>, "Ok", <<>>)]

\* PhysicalPlanBuilder::new; built is what build_plan returned last, issued
\* the plan ids of all the trees returned so far (history)
NewBuilder ==
    [plan_id |-> 0, issued |-> {},
     built |-> [op |-> "new", arg |-> <<>>, res |-> "Ok", plan |-> <<>>]]

Call(op, t, tbl, arg, res, ret) ==
    [op |-> op, t |-> t, tbl |-> tbl, arg |-> arg, res |-> res, ret |-> ret]

Init ==
    /\ store = EmptyKV
    /\ tx = [t \in Txs |-> IdleTx]
    /\ iters = [i \in IterIds |-> IdleIter]
    /\ index_iters = [i \in IterIds |-> IdleIndexIter]
    /\ ops = 0
    /\ last = Call("new", 0, "", <<>>, "Ok", <<>>)
    /\ binder = NewBinder
    /\ builder = NewBuilder
    /\ ghost = [committed |-> EmptyGhost, tx |-> [t \in Txs |-> EmptyGhost],
                base |-> [t \in Txs |-> EmptyGhost], read |-> {}]

\* ------------------------------------------------------------------- ghost
\* What a caller who only sees calls and results concludes about the
\* transaction: tables created and not dropped, rows appended and not
\* deleted, and per index key the ids of the first add since its removal.
\* what is committed once a transaction that began at `base` and now holds
\* `mine` commits: its changes, and for the rest what others committed since
Merged(committed, base, mine) ==
    [made |-> [T \in Tables |->
                IF mine.made[T] # base.made[T] THEN mine.made[T] ELSE committed.made[T]],
     rows |-> [T \in Tables |-> [id \in StoredVals |->
                IF mine.rows[T][id] # base.rows[T][id]
                THEN mine.rows[T][id] ELSE committed.rows[T][id]]],
     idx |-> [T \in Tables |-> [ik \in (0..1) \X StoredVals |->
                IF mine.idx[T][ik] # base.idx[T][ik]
                THEN mine.idx[T][ik] ELSE committed.idx[T][ik]]]]

ObserveTables(g, c) ==
    LET t == c.t
        T == c.tbl
    IN CASE c.op = "transaction" -> [g EXCEPT !.tx[t] = g.committed, !.base[t] = g.committed]
         [] c.op = "commit" /\ c.res = "Ok" ->
                [g EXCEPT !.committed = Merged(g.committed, g.base[t], g.tx[t]),
                          !.tx[t] = EmptyGhost, !.base[t] = EmptyGhost]
         [] c.op \in {"commit", "rollback"} \/ c.res = "panic" ->
                [g EXCEPT !.tx[t] = EmptyGhost, !.base[t] = EmptyGhost]
         [] c.op = "create_table" /\ c.res = "Ok" /\ c.ret # <<>> ->
                [g EXCEPT !.tx[t].made[T] = [there |-> TRUE, cols |-> c.arg[1]]]
         [] c.op = "drop_table" /\ c.res = "Ok" ->
                [g EXCEPT !.tx[t].made[T] = [there |-> FALSE, cols |-> <<>>],
                          !.tx[t].rows[T] = NoRows, !.tx[t].idx[T] = NoIdx]
         [] c.op = "drop_table" /\ c.res # "Ok" ->
                [g EXCEPT !.tx[t].rows[T] = NoRows, !.tx[t].idx[T] = NoIdx]
         [] c.op = "append" /\ c.res = "Ok" ->
                [g EXCEPT !.tx[t].rows[T][c.arg[1].id] = c.arg[1].values]
         [] c.op = "delete" /\ c.res = "Ok" ->
                [g EXCEPT !.tx[t].rows[T][c.arg[1]] = <<>>]
         [] c.op = "add_index" /\ c.res = "Ok" ->
                LET ik == <<c.arg[1].id, c.arg[1].column_values[1]>>
                IN IF g.tx[t].idx[T][ik] = <<>>
                   THEN [g EXCEPT !.tx[t].idx[T][ik] = c.arg[2]] ELSE g
         [] c.op = "del_index" /\ c.res = "Ok" ->
                [g EXCEPT !.tx[t].idx[T][<<c.arg[1].id, c.arg[1].column_values[1]>>] = <<>>]
         [] OTHER -> g

\* The keys that the transaction Reader has looked up with get since it began
\* (the existence checks of create_table, append and add_index, and the
\* lookup that remove makes before it writes).
Reader == CHOOSE t \in Txs : t \notin SeqTxs
ObserveReads(r, c) ==
    IF c.t # Reader THEN r
    ELSE CASE c.op \in {"transaction", "commit", "rollback"} -> {}
           [] c.res = "panic" -> {}
           [] c.op = "create_table" -> r \cup {RootKey(c.tbl)}
           [] c.op = "append" /\ ~c.arg[2] -> r \cup {TupleKey(c.tbl, c.arg[1].id)}
           [] c.op = "delete" -> r \cup {TupleKey(c.tbl, c.arg[1])}
           [] c.op \in {"add_index", "del_index"} ->
                r \cup {IdxKey(c.tbl, c.arg[1].id, c.arg[1].column_values[1])}
           [] OTHER -> r

Observe(g, c) == [ObserveTables(g, c) EXCEPT !.read = ObserveReads(g.read, c)]

\* ------------------------------------------------- mvcc::Transaction (kip_db)
\* what the transaction sees at a key: its own write buffer over its snapshot
ViewOf(snap, buf) == [k \in Keys |-> IF buf[k].k # "none" THEN buf[k] ELSE snap[k]]
View(t) == ViewOf(tx[t].snap, tx[t].buf)

\* get: Some(value) iff the newest entry is a value
tx_get(snap, buf, key) == ViewOf(snap, buf)[key]
IsSome(entry) == entry.k = "val"

tx_set(buf, key, value) == [buf EXCEPT ![key] = Value(value)]

\* remove of a key that get does not find is KeyNotFound and writes nothing
tx_remove_ok(snap, buf, key) == IsSome(tx_get(snap, buf, key))
\* mutant: remove reports success but records nothing
tx_remove_forgets(buf, key) == buf
tx_remove(buf, key) == [buf EXCEPT ![key] = Tombstone]

\* mutant: a walk of a tuple family runs on into the tuple families of the
\* other tables
tx_iter_past_range(snap, buf, range) ==
    LET wide == IF range[1][1] = "Tuple"
                THEN range \o SelectSeq(tuple_bound(TableSeq[1]) \o tuple_bound(TableSeq[2]),
                                        LAMBDA k : k \notin Range(range))
                ELSE range
        present == SelectSeq(wide, LAMBDA k : ViewOf(snap, buf)[k].k # "none")
    IN [i \in 1..Len(present) |->
            [key |-> present[i], value |-> ViewOf(snap, buf)[present[i]]]]

\* mutant: the iterator walks the snapshot only and misses the write buffer
tx_iter_snapshot_only(snap, buf, range) ==
    LET present == SelectSeq(range, LAMBDA k : snap[k].k # "none")
    IN [i \in 1..Len(present) |-> [key |-> present[i], value |-> snap[present[i]]]]

\* iter(Included(min), Included(max)): every entry of the range in key order,
\* removed keys included as (key, None)
tx_iter(snap, buf, range) ==
    LET present == SelectSeq(range, LAMBDA k : ViewOf(snap, buf)[k].k # "none")
    IN [i \in 1..Len(present) |->
            [key |-> present[i], value |-> ViewOf(snap, buf)[present[i]]]]

RECURSIVE SetAll(_, _)
SetAll(buf, writes) ==
    IF Len(writes) = 0 THEN buf
    ELSE SetAll(tx_set(buf, writes[1][1], writes[1][2]), Tail(writes))

RECURSIVE RemoveAll(_, _)
RemoveAll(buf, keys) ==
    IF Len(keys) = 0 THEN buf
    ELSE RemoveAll(tx_remove(buf, keys[1]), Tail(keys))

NoIterOpen(t) ==
    \A i \in IterIds : /\ ~(iters[i].open /\ iters[i].t = t)
                       /\ ~(index_iters[i].open /\ index_iters[i].t = t)

\* a write call needs exclusive use of the handle (&mut self); the run is
\* cut off after MaxOps effective writes
CanWrite(t) == tx[t].active /\ NoIterOpen(t) /\ ops < MaxOps

\* ---------------------------------------------------------- KipTransaction
\* mutant: the columns are collected in descending key order
column_collect_reversed(snap, buf, T) ==
    LET es == SelectSeq(tx_iter(snap, buf, columns_bound(T)), LAMBDA e : IsSome(e.value))
    IN [i \in 1..Len(es) |-> decode_column(es[Len(es) + 1 - i].value.v)]

\* column_collect: the decoded values of the column family, in key order
column_collect(snap, buf, T) ==
    LET es == SelectSeq(tx_iter(snap, buf, columns_bound(T)), LAMBDA e : IsSome(e.value))
    IN [i \in 1..Len(es) |-> decode_column(es[i].value.v)]

index_meta_collect(snap, buf, T) ==
    LET es == SelectSeq(tx_iter(snap, buf, index_meta_bound(T)), LAMBDA e : IsSome(e.value))
    IN [i \in 1..Len(es) |-> decode_index_meta(es[i].value.v)]

\* table: the cached catalog, or on a miss the catalog rebuilt from the
\* column and index-meta families (absent when the rebuild fails)
table_miss(snap, buf, T) ==
    TableCatalog_new_with_indexes(column_collect(snap, buf, T),
                                  index_meta_collect(snap, buf, T))

table_of(handle, T) ==
    IF handle.cache[T].ok THEN handle.cache[T]
    ELSE table_miss(handle.snap, handle.buf, T)

table_result(t, T) == table_of(tx[t], T)

\* show_tables: the decoded values of the root family
show_tables_result(t) ==
    LET es == SelectSeq(tx_iter(tx[t].snap, tx[t].buf, root_table_bound),
                        LAMBDA e : IsSome(e.value))
    IN [i \in 1..Len(es) |-> decode_root_table(es[i].value.v)]

\* create_index_meta_for_table: one IndexMeta per indexed column, in column
\* order; yields the catalog with the metas added and the writes made
RECURSIVE index_metas_from(_, _, _, _)
index_metas_from(T, cols, table_catalog, writes) ==
    IF Len(cols) = 0 THEN [table |-> table_catalog, writes |-> writes]
    ELSE LET col == cols[1]
             is_primary == col.is_primary
             prefix == IF is_primary THEN "pk" ELSE "uk"
             meta == [id |-> 0, column_ids |-> <<col.id>>,
                      name |-> prefix \o "_" \o col.name,
                      is_unique |-> col.is_unique, is_primary |-> is_primary]
             added == add_index_meta(table_catalog, meta)
             meta_ref == added.indexes[Len(added.indexes)]
         IN index_metas_from(T, Tail(cols), added,
                             Append(writes, encode_index_meta(T, meta_ref)))

\* mutant: only the primary column gets an index meta
create_index_meta_for_table_pk_only(T, table_catalog) ==
    index_metas_from(T, SelectSeq(all_columns(table_catalog), LAMBDA col : col.is_primary),
                     table_catalog, <<>>)

create_index_meta_for_table(T, table_catalog) ==
    index_metas_from(T, SelectSeq(all_columns(table_catalog), is_index),
                     table_catalog, <<>>)

\* live keys of a range: what drop_table and _drop_data collect before removing
live_keys(snap, buf, range) ==
    LET es == SelectSeq(tx_iter(snap, buf, range), LAMBDA e : IsSome(e.value))
    IN [i \in 1..Len(es) |-> es[i].key]

\* _drop_data: remove every live key of the range
_drop_data(snap, buf, range) == RemoveAll(buf, live_keys(snap, buf, range))

\* drop_data: the tuple family, then every index family of the table
drop_data_buf(snap, buf, T) ==
    _drop_data(snap, _drop_data(snap, buf, tuple_bound(T)), all_index_bound(T))

\* the keys create_table sets after the root entry, in order
create_table_writes(T, table_catalog) ==
    LET r == create_index_meta_for_table(T, table_catalog)
        cols == r.table.columns
    IN [table |-> r.table,
        writes |-> r.writes \o [i \in 1..Len(cols) |-> encode_column(T, cols[i])]]

\* the per-transaction catalog cache
cache_put(cache, T, table_catalog) == [cache EXCEPT ![T] = table_catalog]
\* mutant: the cached catalog survives the removal
cache_remove_keeps(cache, T) == cache
cache_remove(cache, T) == [cache EXCEPT ![T] = NoCatalog]
cache_get_or_insert(cache, T, table_catalog) ==
    IF cache[T].ok THEN cache ELSE [cache EXCEPT ![T] = table_catalog]

\* mutant: if_not_exists is ignored
table_exists_result_ignores_flag(if_not_exists) == "TableExists"

\* create_table on a table whose root entry exists
table_exists_result(if_not_exists) == IF if_not_exists THEN "Ok" ELSE "TableExists"

WriteKeys(writes) == [i \in 1..Len(writes) |-> writes[i][1]]

\* ----------------------------------------------------------------- actions
\* mutant: the new handle also sees what the open handles have buffered
transaction_dirty(t) ==
    /\ ~tx[t].active
    /\ tx' = [tx EXCEPT ![t] = [IdleTx EXCEPT !.active = TRUE,
                 !.snap = [k \in Keys |->
                    IF \E u \in Txs : tx[u].active /\ tx[u].buf[k].k # "none"
                    THEN (CHOOSE e \in {tx[u].buf[k] : u \in {v \in Txs :
                            tx[v].active /\ tx[v].buf[k].k # "none"}} : TRUE)
                    ELSE store[k]]]]
    /\ last' = Call("transaction", t, "", <<>>, "Ok", <<>>)
    /\ ghost' = Observe(ghost, last')
    /\ UNCHANGED <<store, iters, index_iters, ops, binder, builder>>

\* Storage::transaction: a new handle on the current committed state
transaction(t) ==
    /\ ~tx[t].active
    /\ tx' = [tx EXCEPT ![t] = [IdleTx EXCEPT !.active = TRUE, !.snap = store]]
    /\ last' = Call("transaction", t, "", <<>>, "Ok", <<>>)
    /\ ghost' = Observe(ghost, last')
    /\ UNCHANGED <<store, iters, index_iters, ops, binder, builder>>

create_table(t, T, columns, if_not_exists) ==
    /\ CanWrite(t)
    /\ LET snap == tx[t].snap
           buf == tx[t].buf
           root == encode_root_table(T)
           buf1 == tx_set(buf, root[1], root[2])
           table_catalog == TableCatalog_new(columns)
           w == create_table_writes(T, table_catalog)
       IN IF IsSome(tx_get(snap, buf, root[1]))
          THEN /\ last' = Call("create_table", t, T, <<columns, if_not_exists>>,
                               table_exists_result(if_not_exists), <<>>)
               /\ UNCHANGED tx
          ELSE IF ~table_catalog.ok
          THEN /\ tx' = [tx EXCEPT ![t].buf = buf1]
               /\ last' = Call("create_table", t, T, <<columns, if_not_exists>>,
                               "CatalogError", <<root[1]>>)
          ELSE /\ tx' = [tx EXCEPT ![t].buf = SetAll(buf1, w.writes),
                                   ![t].cache = cache_put(@, T, w.table)]
               /\ last' = Call("create_table", t, T, <<columns, if_not_exists>>,
                               "Ok", <<root[1]>> \o WriteKeys(w.writes))
    /\ ops' = IF tx' = tx THEN ops ELSE ops + 1
    /\ ghost' = Observe(ghost, last')
    /\ UNCHANGED <<store, iters, index_iters, binder, builder>>

drop_table(t, T) ==
    /\ CanWrite(t)
    /\ LET snap == tx[t].snap
           buf1 == drop_data_buf(snap, tx[t].buf, T)
           buf2 == RemoveAll(buf1, live_keys(snap, buf1, columns_bound(T)))
           root == encode_root_table_key(T)
       IN IF tx_remove_ok(snap, buf2, root)
          THEN /\ tx' = [tx EXCEPT ![t].buf = tx_remove(buf2, root),
                                   ![t].cache = cache_remove(@, T)]
               /\ last' = Call("drop_table", t, T, <<>>, "Ok", <<>>)
          ELSE /\ tx' = [tx EXCEPT ![t].buf = buf2]
               /\ last' = Call("drop_table", t, T, <<>>, "KeyNotFound", <<>>)
    /\ ops' = IF tx' = tx THEN ops ELSE ops + 1
    /\ ghost' = Observe(ghost, last')
    /\ UNCHANGED <<store, iters, index_iters, binder, builder>>

\* mutant: the duplicate check is made for overwriting appends instead
append_check_inverted(t, T, tuple, is_overwrite) ==
    /\ CanWrite(t)
    /\ LET kv == encode_tuple(T, tuple)
       IN IF is_overwrite /\ IsSome(tx_get(tx[t].snap, tx[t].buf, kv[1]))
          THEN /\ last' = Call("append", t, T, <<tuple, is_overwrite>>,
                               "DuplicatePrimaryKey", <<>>)
               /\ UNCHANGED tx
          ELSE /\ tx' = [tx EXCEPT ![t].buf = tx_set(@, kv[1], kv[2])]
               /\ last' = Call("append", t, T, <<tuple, is_overwrite>>, "Ok", <<>>)
    /\ ops' = IF tx' = tx THEN ops ELSE ops + 1
    /\ ghost' = Observe(ghost, last')
    /\ UNCHANGED <<store, iters, index_iters, binder, builder>>

append(t, T, tuple, is_overwrite) ==
    /\ CanWrite(t)
    /\ LET kv == encode_tuple(T, tuple)
       IN IF ~is_overwrite /\ IsSome(tx_get(tx[t].snap, tx[t].buf, kv[1]))
          THEN /\ last' = Call("append", t, T, <<tuple, is_overwrite>>,
                               "DuplicatePrimaryKey", <<>>)
               /\ UNCHANGED tx
          ELSE /\ tx' = [tx EXCEPT ![t].buf = tx_set(@, kv[1], kv[2])]
               /\ last' = Call("append", t, T, <<tuple, is_overwrite>>, "Ok", <<>>)
    /\ ops' = IF tx' = tx THEN ops ELSE ops + 1
    /\ ghost' = Observe(ghost, last')
    /\ UNCHANGED <<store, iters, index_iters, binder, builder>>

\* mutant: the primary index entry of the row is removed with it
delete_cascading(t, T, tuple_id) ==
    /\ CanWrite(t)
    /\ LET key == encode_tuple_key(T, tuple_id)
       IN IF tx_remove_ok(tx[t].snap, tx[t].buf, key)
          THEN /\ tx' = [tx EXCEPT ![t].buf = tx_remove(tx_remove(@, key),
                                                       IdxKey(T, 0, tuple_id))]
               /\ last' = Call("delete", t, T, <<tuple_id>>, "Ok", <<>>)
          ELSE /\ last' = Call("delete", t, T, <<tuple_id>>, "KeyNotFound", <<>>)
               /\ UNCHANGED tx
    /\ ops' = IF tx' = tx THEN ops ELSE ops + 1
    /\ ghost' = Observe(ghost, last')
    /\ UNCHANGED <<store, iters, index_iters, binder, builder>>

delete(t, T, tuple_id) ==
    /\ CanWrite(t)
    /\ LET key == encode_tuple_key(T, tuple_id)
       IN IF tx_remove_ok(tx[t].snap, tx[t].buf, key)
          THEN /\ tx' = [tx EXCEPT ![t].buf = tx_remove(@, key)]
               /\ last' = Call("delete", t, T, <<tuple_id>>, "Ok", <<>>)
          ELSE /\ last' = Call("delete", t, T, <<tuple_id>>, "KeyNotFound", <<>>)
               /\ UNCHANGED tx
    /\ ops' = IF tx' = tx THEN ops ELSE ops + 1
    /\ ghost' = Observe(ghost, last')
    /\ UNCHANGED <<store, iters, index_iters, binder, builder>>

\* mutant: the whole id lists are compared instead of their first ids
unique_conflict_whole_list(old_tuple_ids, tuple_ids) == old_tuple_ids # tuple_ids

\* add_index on an existing unique key: old_tuple_ids[0] != tuple_ids[0]
unique_conflict(old_tuple_ids, tuple_ids) == old_tuple_ids[1] # tuple_ids[1]

add_index(t, T, index, tuple_ids, is_unique) ==
    /\ CanWrite(t)
    /\ LET kv == encode_index(T, index, tuple_ids)
           found == tx_get(tx[t].snap, tx[t].buf, kv[1])
           arg == <<index, tuple_ids, is_unique>>
       IN IF IsSome(found)
          THEN IF is_unique
               THEN /\ last' = Call("add_index", t, T, arg,
                                    IF unique_conflict(decode_index(found.v), tuple_ids)
                                    THEN "DuplicateUniqueValue" ELSE "Ok", <<>>)
                    /\ UNCHANGED tx
               ELSE \* todo!(): the thread panics and the handle is dropped
                    /\ tx' = [tx EXCEPT ![t] = IdleTx]
                    /\ last' = Call("add_index", t, T, arg, "panic", <<>>)
          ELSE /\ tx' = [tx EXCEPT ![t].buf = tx_set(@, kv[1], kv[2])]
               /\ last' = Call("add_index", t, T, arg, "Ok", <<kv[1]>>)
    /\ ops' = IF tx' = tx THEN ops ELSE ops + 1
    /\ ghost' = Observe(ghost, last')
    /\ UNCHANGED <<store, iters, index_iters, binder, builder>>

del_index(t, T, index) ==
    /\ CanWrite(t)
    /\ LET key == encode_index_key(T, index)
       IN IF tx_remove_ok(tx[t].snap, tx[t].buf, key)
          THEN /\ tx' = [tx EXCEPT ![t].buf = tx_remove(@, key)]
               /\ last' = Call("del_index", t, T, <<index>>, "Ok", <<>>)
          ELSE /\ last' = Call("del_index", t, T, <<index>>, "KeyNotFound", <<>>)
               /\ UNCHANGED tx
    /\ ops' = IF tx' = tx THEN ops ELSE ops + 1
    /\ ghost' = Observe(ghost, last')
    /\ UNCHANGED <<store, iters, index_iters, binder, builder>>

\* table: a miss that rebuilds a catalog also puts it into the cache
table(t, T) ==
    /\ tx[t].active
    /\ NoIterOpen(t)
    /\ LET c == table_result(t, T)
       IN /\ tx' = [tx EXCEPT ![t].cache = cache_get_or_insert(@, T, c)]
          /\ last' = Call("table", t, T, <<>>, IF c.ok THEN "Some" ELSE "None", c)
    /\ ghost' = Observe(ghost, last')
    /\ UNCHANGED <<store, iters, index_iters, ops, binder, builder>>

show_tables(t) ==
    /\ tx[t].active
    /\ NoIterOpen(t)
    /\ last' = Call("show_tables", t, "", <<>>, "Ok", show_tables_result(t))
    /\ ghost' = Observe(ghost, last')
    /\ UNCHANGED <<store, tx, iters, index_iters, ops, binder, builder>>

\* read: TableNotFound when table() is absent, else a cursor over the tuple family
read(t, i, T, bounds, projections) ==
    /\ tx[t].active
    /\ ~iters[i].open
    /\ LET c == table_result(t, T)
       IN IF ~c.ok
          THEN /\ last' = Call("read", t, T, <<bounds, projections>>, "TableNotFound", <<>>)
               /\ UNCHANGED <<tx, iters>>
          ELSE /\ tx' = [tx EXCEPT ![t].cache = cache_get_or_insert(@, T, c)]
               /\ iters' = [iters EXCEPT ![i] =
                    [open |-> TRUE, t |-> t, tbl |-> T,
                     offset |-> IF bounds[1] = -1 THEN 0 ELSE bounds[1],
                     limit |-> bounds[2], bounds |-> bounds,
                     projections |-> projections, all_columns |-> all_columns(c),
                     pos |-> 1, out |-> <<>>, done |-> FALSE]]
               /\ last' = Call("read", t, T, <<bounds, projections>>, "Ok", <<>>)
    /\ ghost' = Observe(ghost, last')
    /\ UNCHANGED <<store, index_iters, ops, binder, builder>>

\* tuple_projection: evaluate the projections on the tuple and count the
\* tuple against the limit
tuple_projection(limit, projections, tuple) ==
    [limit |-> IF limit = -1 THEN -1 ELSE limit - 1,
     tuple |-> [id |-> tuple.id,
                values |-> [j \in 1..Len(projections) |-> tuple.values[projections[j]]]]]

\* mutant: the cursor jumps to the last entry that carries a value
NextSome_last(entries, pos) ==
    LET c == {j \in pos..Len(entries) : IsSome(entries[j].value)}
    IN IF c = {} THEN 0 ELSE CHOOSE j \in c : \A j2 \in c : j >= j2

\* position of the first entry at or after pos that carries a value (0: none)
NextSome(entries, pos) ==
    LET c == {j \in pos..Len(entries) : IsSome(entries[j].value)}
    IN IF c = {} THEN 0 ELSE CHOOSE j \in c : \A j2 \in c : j <= j2

\* mutant: the cursors of one transaction over one table share their position
next_tuple_shared_position(i) ==
    /\ iters[i].open
    /\ ~iters[i].done
    /\ LET it == iters[i]
           entries == tx_iter(tx[it.t].snap, tx[it.t].buf, tuple_bound(it.tbl))
           pos1 == it.pos + it.offset
           hit == NextSome(entries, pos1)
           r == tuple_projection(it.limit, it.projections,
                                 decode_tuple(it.all_columns, entries[hit].value.v))
           shares(j) == j # i /\ iters[j].open /\ iters[j].t = it.t /\ iters[j].tbl = it.tbl
       IN IF it.limit = 0 \/ hit = 0
          THEN /\ iters' = [iters EXCEPT ![i].offset = 0, ![i].done = TRUE,
                                         ![i].pos = IF it.limit = 0 THEN pos1
                                                    ELSE Len(entries) + 1]
               /\ last' = Call("next_tuple", it.t, it.tbl, <<>>, "None", <<>>)
          ELSE /\ iters' = [j \in IterIds |->
                    IF j = i THEN [it EXCEPT !.offset = 0, !.pos = hit + 1,
                                             !.limit = r.limit,
                                             !.out = Append(@, r.tuple)]
                    ELSE IF shares(j) THEN [iters[j] EXCEPT !.pos = hit + 1]
                    ELSE iters[j]]
               /\ last' = Call("next_tuple", it.t, it.tbl, <<>>, "Some", r.tuple)
    /\ ghost' = Observe(ghost, last')
    /\ UNCHANGED <<store, tx, index_iters, ops, binder, builder>>

next_tuple(i) ==
    /\ iters[i].open
    /\ ~iters[i].done
    /\ LET it == iters[i]
           entries == tx_iter(tx[it.t].snap, tx[it.t].buf, tuple_bound(it.tbl))
           \* while self.offset > 0 { try_next; offset -= 1 }
           pos1 == it.pos + it.offset
           hit == NextSome(entries, pos1)
           r == tuple_projection(it.limit, it.projections,
                                 decode_tuple(it.all_columns, entries[hit].value.v))
       IN IF it.limit = 0 \/ hit = 0
          THEN /\ iters' = [iters EXCEPT ![i].offset = 0, ![i].done = TRUE,
                                         ![i].pos = IF it.limit = 0 THEN pos1
                                                    ELSE Len(entries) + 1]
               /\ last' = Call("next_tuple", it.t, it.tbl, <<>>, "None", <<>>)
          ELSE /\ iters' = [iters EXCEPT ![i].offset = 0, ![i].pos = hit + 1,
                                         ![i].limit = r.limit,
                                         ![i].out = Append(@, r.tuple)]
               /\ last' = Call("next_tuple", it.t, it.tbl, <<>>, "Some", r.tuple)
    /\ ghost' = Observe(ghost, last')
    /\ UNCHANGED <<store, tx, index_iters, ops, binder, builder>>

\* ---------------------------------------------------------------- IndexIter
\* mutant: the predicates are queued back to front
binaries_queue_reversed(binaries) ==
    [n \in 1..Len(binaries) |-> binaries[Len(binaries) + 1 - n]]

\* VecDeque::from(binaries): the predicates in the order given
binaries_queue(binaries) == binaries

\* mutant: the two halves of Bounds change places
index_iter_bounds_swapped(bounds) ==
    [offset |-> IF bounds[2] = -1 THEN 0 ELSE bounds[2], limit |-> bounds[1]]

\* offset_option.unwrap_or(0) and limit_option
index_iter_bounds(bounds) ==
    [offset |-> IF bounds[1] = -1 THEN 0 ELSE bounds[1], limit |-> bounds[2]]

\* read_by_index: TableNotFound when table() is absent, else an IndexIter
\* with empty index_values and no scope_iter
read_by_index(t, i, T, bounds, projections, index_meta, binaries) ==
    /\ tx[t].active
    /\ ~index_iters[i].open
    /\ LET c == table_result(t, T)
           arg == <<bounds, projections, index_meta, binaries>>
       IN IF ~c.ok
          THEN /\ last' = Call("read_by_index", t, T, arg, "TableNotFound", <<>>)
               /\ UNCHANGED <<tx, index_iters>>
          ELSE /\ tx' = [tx EXCEPT ![t].cache = cache_get_or_insert(@, T, c)]
               /\ index_iters' = [index_iters EXCEPT ![i] =
                    [open |-> TRUE, t |-> t, tbl |-> T,
                     offset |-> index_iter_bounds(bounds).offset,
                     limit |-> index_iter_bounds(bounds).limit,
                     bounds |-> bounds, projections |-> projections,
                     index_meta |-> index_meta, table |-> c,
                     index_values |-> <<>>, binaries |-> binaries_queue(binaries),
                     scope_iter |-> NoScopeIter, asked |-> binaries,
                     out |-> <<>>, done |-> FALSE]]
               /\ last' = Call("read_by_index", t, T, arg, "Ok", <<>>)
    /\ ghost' = Observe(ghost, last')
    /\ UNCHANGED <<store, iters, ops, binder, builder>>

\* whether an index key value lies within the bounds of a Scope
above_min(min, v) ==
    CASE min.b = "Included" -> v >= min.v
      [] min.b = "Excluded" -> v > min.v
      [] OTHER -> TRUE
below_max(max, v) ==
    CASE max.b = "Included" -> v <= max.v
      [] max.b = "Excluded" -> v < max.v
      [] OTHER -> TRUE

\* the keys of one index of the table between the encoded forms of min and
\* max, in key order
scope_range(T, index_meta, min, max) ==
    LET vs == SelectSeq([n \in 1..(MaxStored + 1) |-> n - 1],
                        LAMBDA v : above_min(min, v) /\ below_max(max, v))
    IN [n \in 1..Len(vs) |-> IdxKey(T, index_meta.id, vs[n])]

\* one request for a tuple: steps 1 to 4 of the scan algorithm, repeated
\* until a tuple is yielded or the scan terminates
RECURSIVE index_next(_, _, _)
index_next(it, snap, buf) ==
    IF it.limit = 0 THEN [it |-> it, ret |-> <<>>]
    ELSE IF it.index_values # <<>>
    THEN LET tuple_id == Head(it.index_values)
             rest == [it EXCEPT !.index_values = Tail(@)]
             found == tx_get(snap, buf, encode_tuple_key(it.tbl, tuple_id))
         IN IF ~IsSome(found) THEN index_next(rest, snap, buf)
            ELSE IF it.offset > 0
            THEN index_next([rest EXCEPT !.offset = @ - 1], snap, buf)
            ELSE LET r == tuple_projection(it.limit, it.projections,
                                           decode_tuple(all_columns(it.table), found.v))
                 IN [it |-> [rest EXCEPT !.limit = r.limit], ret |-> <<r.tuple>>]
    ELSE IF it.scope_iter.open
    THEN LET entries == tx_iter(snap, buf, it.scope_iter.range)
             pos == it.scope_iter.pos
         IN IF pos > Len(entries)
            THEN index_next([it EXCEPT !.scope_iter = NoScopeIter], snap, buf)
            ELSE index_next([it EXCEPT !.scope_iter.pos = pos + 1,
                                       !.index_values =
                                            IF IsSome(entries[pos].value)
                                            THEN decode_index(entries[pos].value.v)
                                            ELSE <<>>], snap, buf)
    ELSE IF it.binaries # <<>>
    THEN LET binary == Head(it.binaries)
             popped == [it EXCEPT !.binaries = Tail(@)]
             found == tx_get(snap, buf,
                             IdxKey(it.tbl, it.index_meta.id, binary.v))
         IN IF binary.kind = "Eq"
            THEN index_next([popped EXCEPT !.index_values =
                                IF IsSome(found) THEN decode_index(found.v) ELSE <<>>],
                            snap, buf)
            ELSE index_next([popped EXCEPT !.scope_iter =
                                [open |-> TRUE, pos |-> 1,
                                 range |-> scope_range(it.tbl, it.index_meta,
                                                       binary.min, binary.max)]],
                            snap, buf)
    ELSE [it |-> it, ret |-> <<>>]

IndexIter_next_tuple(i) ==
    /\ index_iters[i].open
    /\ ~index_iters[i].done
    /\ LET it == index_iters[i]
           r == index_next(it, tx[it.t].snap, tx[it.t].buf)
       IN IF r.ret = <<>>
          THEN /\ index_iters' = [index_iters EXCEPT ![i] = [r.it EXCEPT !.done = TRUE]]
               /\ last' = Call("next_tuple", it.t, it.tbl, <<>>, "None", <<>>)
          ELSE /\ index_iters' = [index_iters EXCEPT ![i] =
                                    [r.it EXCEPT !.out = Append(@, r.ret[1])]]
               /\ last' = Call("next_tuple", it.t, it.tbl, <<>>, "Some", r.ret[1])
    /\ ghost' = Observe(ghost, last')
    /\ UNCHANGED <<store, tx, iters, ops, binder, builder>>

\* the IndexIter is dropped
IndexIter_close(i) ==
    /\ index_iters[i].open
    /\ index_iters' = [index_iters EXCEPT ![i] = IdleIndexIter]
    /\ last' = Call("close", index_iters[i].t, "", <<>>, "Ok", <<>>)
    /\ ghost' = Observe(ghost, last')
    /\ UNCHANGED <<store, tx, iters, ops, binder, builder>>

\* the cursor is dropped
close(i) ==
    /\ iters[i].open
    /\ iters' = [iters EXCEPT ![i] = IdleIter]
    /\ last' = Call("close", iters[i].t, "", <<>>, "Ok", <<>>)
    /\ ghost' = Observe(ghost, last')
    /\ UNCHANGED <<store, tx, index_iters, ops, binder, builder>>

WrittenKeys(buf) == {k \in Keys : buf[k].k # "none"}

\* commit: the write buffer is applied atomically unless a key it writes was
\* committed by another transaction after this one began
commit(t) ==
    /\ tx[t].active
    /\ NoIterOpen(t)
    /\ IF WrittenKeys(tx[t].buf) \cap tx[t].stale # {}
       THEN /\ tx' = [tx EXCEPT ![t] = IdleTx]
            /\ last' = Call("commit", t, "", <<>>, "Conflict", <<>>)
            /\ UNCHANGED store
       ELSE /\ store' = ViewOf(store, tx[t].buf)
            /\ tx' = [u \in Txs |->
                        IF u = t THEN IdleTx
                        ELSE IF tx[u].active
                             THEN [tx[u] EXCEPT !.stale = @ \cup WrittenKeys(tx[t].buf)]
                             ELSE tx[u]]
            /\ last' = Call("commit", t, "", <<>>, "Ok", <<>>)
    /\ ghost' = Observe(ghost, last')
    /\ UNCHANGED <<iters, index_iters, ops, binder, builder>>

\* the handle is dropped without commit: the write buffer is discarded
rollback(t) ==
    /\ tx[t].active
    /\ NoIterOpen(t)
    /\ tx' = [tx EXCEPT ![t] = IdleTx]
    /\ last' = Call("rollback", t, "", <<>>, "Ok", <<>>)
    /\ ghost' = Observe(ghost, last')
    /\ UNCHANGED <<store, iters, index_iters, ops, binder, builder>>

\* ----------------------------------------------------------- specification
AppendInputs ==
    {<<[id |-> id, values |-> <<id, 0>>], FALSE>> : id \in KeyVals}
    \cup {<<[id |-> id, values |-> <<id, 1>>], TRUE>> : id \in KeyVals}
ReadBounds == {<<-1, -1>>, <<-1, 0>>, <<-1, 1>>, <<1, 1>>}
Projections == {<<2, 1>>}
DataTables == {"t1"}

\* transaction life cycle and cursors, common to every specification
TxLifecycle ==
    \/ \E t \in SeqTxs : transaction(t)
    \/ \E t \in SeqTxs : commit(t)
    \/ \E t \in SeqTxs : rollback(t)

Lifecycle ==
    \/ \E t \in SeqTxs : transaction(t)
    \/ \E t \in SeqTxs : commit(t)
    \/ \E t \in SeqTxs : rollback(t)
    \/ \E i \in SeqIters : next_tuple(i)
    \/ \E i \in SeqIters : close(i)

\* catalog operations on two tables, with rows in one of them
Next ==
    \/ Lifecycle
    \/ \E t \in SeqTxs, T \in Tables, cols \in ColumnLists, ine \in BOOLEAN :
            create_table(t, T, cols, ine)
    \/ \E t \in SeqTxs, T \in Tables : drop_table(t, T)
    \/ \E t \in SeqTxs, T \in DataTables :
            append(t, T, [id |-> 0, values |-> <<0, 0>>], FALSE)
    \/ \E t \in SeqTxs, T \in Tables : table(t, T)
    \/ \E t \in SeqTxs : show_tables(t)
    \/ \E t \in SeqTxs, i \in SeqIters, T \in Tables :
            read(t, i, T, <<-1, -1>>, <<2, 1>>)

Spec == Init /\ [][Next]_vars

\* rows of one table: append, delete and scans with offset and limit
NextData ==
    \/ Lifecycle
    \/ \E t \in SeqTxs, T \in DataTables, cols \in {ColsA, ColsB} :
            create_table(t, T, cols, FALSE)
    \/ \E t \in SeqTxs, T \in DataTables : drop_table(t, T)
    \/ \E t \in SeqTxs, T \in DataTables, a \in AppendInputs : append(t, T, a[1], a[2])
    \/ \E t \in SeqTxs, T \in DataTables, id \in KeyVals : delete(t, T, id)
    \/ \E t \in SeqTxs, i \in SeqIters, T \in DataTables, b \in ReadBounds,
          p \in Projections : read(t, i, T, b, p)

SpecData == Init /\ [][NextData]_vars

\* index entries of one table: add_index, del_index, and what drops them
IndexVals == {0, 1}
IndexInputs == {[id |-> 1, column_values |-> <<v>>] : v \in IndexVals}
TupleIdLists == {<<id>> : id \in KeyVals} \cup {<<0, 1>>}

NextIdx ==
    \/ TxLifecycle
    \/ \E t \in SeqTxs, T \in DataTables : create_table(t, T, ColsB, FALSE)
    \/ \E t \in SeqTxs, T \in DataTables : drop_table(t, T)
    \/ \E t \in SeqTxs, T \in DataTables, ix \in IndexInputs,
          ids \in TupleIdLists, uq \in BOOLEAN : add_index(t, T, ix, ids, uq)
    \/ \E t \in SeqTxs, T \in DataTables, ix \in IndexInputs : del_index(t, T, ix)

SpecIdx == Init /\ [][NextIdx]_vars

\* ------------------------------------------------------------- properties
Min(a, b) == IF a <= b THEN a ELSE b

\* the rows the calls so far left in table T, in ascending key order, as a
\* scan with the given projections presents them
LiveIds(g, T) ==
    SelectSeq([n \in 1..(MaxStored + 1) |-> n - 1], LAMBDA id : g.rows[T][id] # <<>>)
ExpectedScan(g, T, projections) ==
    LET ids == LiveIds(g, T)
    IN [n \in 1..Len(ids) |->
            [id |-> ids[n],
             values |-> [j \in 1..Len(projections) |-> g.rows[T][ids[n]][projections[j]]]]]

\* C1: append(T, tup, is_overwrite=false) returns DuplicatePrimaryKey exactly
\* when a row with tup's key is live in the transaction's view (appended
\* earlier, committed or not, and not deleted or dropped since); otherwise it
\* returns Ok and the transaction then reads tup's values at tup's key.
C1_AppendDuplicateIffLive ==
    [][(last'.op = "append" /\ ~last'.arg[2]) =>
        LET t == last'.t
            T == last'.tbl
            tup == last'.arg[1]
            live == ghost.tx[t].rows[T][tup.id] # <<>>
        IN /\ (last'.res = "DuplicatePrimaryKey") <=> live
           /\ live => tx' = tx
           /\ ~live =>
                /\ last'.res = "Ok"
                /\ tx_get(tx'[t].snap, tx'[t].buf, encode_tuple_key(T, tup.id))
                        = Value(tup.values)]_vars

\* a duplicate append whose first copy was written by the same, uncommitted
\* transaction
C1_Witness ==
    /\ last.op = "append"
    /\ last.res = "DuplicatePrimaryKey"
    /\ ~last.arg[2]
    /\ IsSome(tx[last.t].buf[encode_tuple_key(last.tbl, last.arg[1].id)])
    /\ store[encode_tuple_key(last.tbl, last.arg[1].id)] = NoEntry

\* C8: a finished full scan of T (no offset, no limit) yields no row that
\* was appended and then deleted, and yields every other live row of T.
C8_DeletedRowNotScanned ==
    \A i \in IterIds :
        (iters[i].open /\ iters[i].done /\ iters[i].bounds = <<-1, -1>>) =>
            LET it == iters[i]
                g == ghost.tx[it.t]
            IN /\ \A n \in 1..Len(it.out) : g.rows[it.tbl][it.out[n].id] # <<>>
               /\ it.out = ExpectedScan(g, it.tbl, it.projections)

\* a finished full scan that passed over a deleted row and yielded another one
C8_Witness ==
    \E i \in IterIds :
        /\ iters[i].open /\ iters[i].done /\ iters[i].bounds = <<-1, -1>>
        /\ iters[i].out # <<>>
        /\ \E id \in KeyVals :
            View(iters[i].t)[encode_tuple_key(iters[i].tbl, id)] = Tombstone

\* C9: read(T, (Some(n), Some(k)), pi) yields at most k tuples, namely the
\* full scan of T without its first n tuples, cut to k tuples; nothing when
\* the limit is 0.
C9_OffsetLimitWindow ==
    \A i \in IterIds :
        (iters[i].open /\ iters[i].done) =>
            LET it == iters[i]
                full == ExpectedScan(ghost.tx[it.t], it.tbl, it.projections)
                n == IF it.bounds[1] = -1 THEN 0 ELSE it.bounds[1]
                k == it.bounds[2]
            IN /\ k # -1 => Len(it.out) <= k
               /\ it.out = SubSeq(full, n + 1,
                                  IF k = -1 THEN Len(full) ELSE Min(Len(full), n + k))

\* C10: a row appended by a transaction is yielded by a scan that the same
\* transaction opens afterwards, before any commit, whenever the row falls
\* within the limit.
C10_OwnAppendsScanned ==
    \A i \in IterIds :
        (iters[i].open /\ iters[i].done /\ iters[i].bounds[1] = -1) =>
            LET it == iters[i]
                g == ghost.tx[it.t]
                k == it.bounds[2]
            IN \A id \in KeyVals :
                LET e == tx[it.t].buf[encode_tuple_key(it.tbl, id)]
                    rank == Cardinality({j \in KeyVals : j <= id /\ g.rows[it.tbl][j] # <<>>})
                IN (IsSome(e) /\ (k = -1 \/ rank <= k)) =>
                    \E n \in 1..Len(it.out) :
                        it.out[n] = [id |-> id,
                                     values |-> [j \in 1..Len(it.projections) |->
                                                    e.v[it.projections[j]]]]

\* a finished scan that yielded a row no transaction has committed
C10_Witness ==
    \E i \in IterIds :
        /\ iters[i].open /\ iters[i].done /\ iters[i].bounds[1] = -1
        /\ \E n \in 1..Len(iters[i].out) :
            /\ IsSome(tx[iters[i].t].buf[encode_tuple_key(iters[i].tbl, iters[i].out[n].id)])
            /\ store[encode_tuple_key(iters[i].tbl, iters[i].out[n].id)] = NoEntry


\* the columns of a catalog built from a declaration: ids dense from zero in
\* declaration order
DeclaredColumns(cols) == [n \in 1..Len(cols) |-> [cols[n] EXCEPT !.id = n - 1]]

\* C2: add_index with is_unique: an absent key is written; a present key with
\* a different first stored id fails with DuplicateUniqueValue; a present key
\* with an equal first stored id succeeds and nothing is written.  Hence every
\* index key holds the ids of the first successful add since its last removal.
C2_UniqueIndexFirstAddWins ==
    [][/\ (last'.op = "add_index" /\ last'.arg[3]) =>
            LET t == last'.t
                T == last'.tbl
                ids == last'.arg[2]
                key == encode_index_key(T, last'.arg[1])
                held == ghost.tx[t].idx[T][<<last'.arg[1].id, last'.arg[1].column_values[1]>>]
            IN /\ held = <<>> =>
                    /\ last'.res = "Ok"
                    /\ tx_get(tx'[t].snap, tx'[t].buf, key) = Value(ids)
               /\ (held # <<>> /\ held[1] # ids[1]) =>
                    /\ last'.res = "DuplicateUniqueValue"
                    /\ tx' = tx
               /\ (held # <<>> /\ held[1] = ids[1]) =>
                    /\ last'.res = "Ok"
                    /\ tx' = tx
       /\ \A t \in Txs, T \in Tables, ik \in (0..1) \X KeyVals :
            tx'[t].active =>
                LET e == tx_get(tx'[t].snap, tx'[t].buf, IdxKey(T, ik[1], ik[2]))
                    held == ghost'.tx[t].idx[T][ik]
                IN /\ IsSome(e) <=> held # <<>>
                   /\ IsSome(e) => decode_index(e.v) = held]_vars

\* a unique add on a key that holds the same first id but a different id
\* list: it succeeded and wrote nothing
C2_Witness ==
    /\ last.op = "add_index"
    /\ last.arg[3]
    /\ last.res = "Ok"
    /\ last.ret = <<>>
    /\ View(last.t)[encode_index_key(last.tbl, last.arg[1])].v # last.arg[2]

C4_CreatedTableListedWithColumns ==
    \A t \in Txs, T \in Tables :
        (tx[t].active /\ ghost.tx[t].made[T].there) =>
            LET cols == DeclaredColumns(ghost.tx[t].made[T].cols)
                rebuilt == table_miss(tx[t].snap, tx[t].buf, T)
                listed == show_tables_result(t)
            IN /\ Cardinality({n \in 1..Len(listed) : listed[n] = T}) = 1
               /\ table_result(t, T).ok
               /\ table_result(t, T).columns = cols
               /\ rebuilt.ok
               /\ rebuilt.columns = cols

\* table(T) answered in a transaction begun after the commit of the creation,
\* with nothing written yet
C4_Witness ==
    /\ last.op = "table"
    /\ last.res = "Some"
    /\ ghost.committed.made[last.tbl].there
    /\ tx[last.t].buf = EmptyKV
    /\ IsSome(store[RootKey(last.tbl)])

\* C5: a creating create_table(T, cols) writes one root entry, one column
\* entry per column and one index-meta entry per column that is primary or
\* unique, named pk_<col> or uk_<col>, with ids 0, 1, ... in column order,
\* and no other key.
C5_CreateTableWrites ==
    (last.op = "create_table" /\ last.res = "Ok" /\ last.ret # <<>>) =>
        LET t == last.t
            T == last.tbl
            cols == last.arg[1]
            written == Range(last.ret)
            indexed == SelectSeq([n \in 1..Len(cols) |-> n],
                                 LAMBDA n : cols[n].is_primary \/ cols[n].is_unique)
        IN /\ Cardinality(written) = Len(last.ret)
           /\ {k \in written : k[1] = "Root"} = {RootKey(T)}
           /\ {k \in written : k[1] = "Col"} = {ColKey(T, n - 1) : n \in 1..Len(cols)}
           /\ {k \in written : k[1] = "IdxMeta"} = {IdxMetaKey(T, j - 1) : j \in 1..Len(indexed)}
           /\ \A k \in written : k[1] \in {"Root", "Col", "IdxMeta"}
           /\ \A j \in 1..Len(indexed) :
                LET e == View(t)[IdxMetaKey(T, j - 1)]
                    col == cols[indexed[j]]
                IN /\ IsSome(e)
                   /\ decode_index_meta(e.v).id = j - 1
                   /\ decode_index_meta(e.v).column_ids = <<indexed[j] - 1>>
                   /\ decode_index_meta(e.v).name =
                        (IF col.is_primary THEN "pk_" ELSE "uk_") \o col.name
                   /\ decode_index_meta(e.v).is_primary = col.is_primary

\* a table with a primary and a unique column has just been created
C5_Witness ==
    /\ last.op = "create_table"
    /\ last.res = "Ok"
    /\ last.arg[1] = ColsB
    /\ Len(last.ret) = 5

KeysOfTable(T) == {k \in Keys : k[2] = T}

\* C6: after drop_table(T) no key of T is live in the transaction's view, in
\* any of the five families, and the cached catalog of T is gone.
C6_DropTableRemovesAll ==
    (last.op = "drop_table" /\ last.res = "Ok") =>
        /\ \A k \in KeysOfTable(last.tbl) : ~IsSome(View(last.t)[k])
        /\ ~tx[last.t].cache[last.tbl].ok

\* C7: while the root entry of T is not live in a transaction's view (never
\* created, or dropped), table(T) is absent, show_tables does not list T and
\* read(T, ...) fails with TableNotFound.
C7_AbsentTable ==
    \A t \in Txs, T \in Tables :
        (tx[t].active /\ ~IsSome(View(t)[RootKey(T)])) =>
            /\ ~table_result(t, T).ok
            /\ T \notin Range(show_tables_result(t))
            /\ (last.op = "read" /\ last.t = t /\ last.tbl = T) =>
                    last.res = "TableNotFound"

\* read failed on a table that the transaction had dropped
C7_Witness ==
    /\ last.op = "read"
    /\ last.res = "TableNotFound"
    /\ tx[last.t].active
    /\ View(last.t)[RootKey(last.tbl)] = Tombstone

\* ------------------------------------------- two concurrent transactions
\* both handles open at once on one table: every write operation, commit and
\* drop of the handle, in any interleaving
ConcIndex == [id |-> 1, column_values |-> <<0>>]
ConcIds == {0}

NextConc ==
    \/ \E t \in Txs : transaction(t)
    \/ \E t \in Txs : commit(t)
    \/ \E t \in Txs : rollback(t)
    \/ \E t \in Txs, T \in DataTables : create_table(t, T, ColsB, FALSE)
    \/ \E t \in Txs, T \in DataTables, id \in ConcIds :
            append(t, T, [id |-> id, values |-> <<id, 0>>], FALSE)
    \/ \E t \in Txs, T \in DataTables : delete(t, T, 0)
    \/ \E t \in SeqTxs, T \in DataTables : drop_table(t, T)
    \/ \E t \in SeqTxs, T \in DataTables : add_index(t, T, ConcIndex, <<0>>, TRUE)
    \/ \E t \in SeqTxs, T \in DataTables : del_index(t, T, ConcIndex)

SpecConc == Init /\ [][NextConc]_vars

\* C11: when transaction B has looked up a key, another transaction has
\* committed a write of that key since B began, and B has writes of its own
\* to commit, B's commit fails with the conflict error; and two transactions
\* open at the same time that both appended the same primary key without
\* overwrite never both commit.
C11_ReadKeyConflict ==
    [][/\ (/\ last'.op = "commit"
           /\ last'.t = Reader
           /\ WrittenKeys(tx[Reader].buf) # {}
           /\ ghost.read \cap tx[Reader].stale # {}) => last'.res = "Conflict"
       /\ (last'.op = "commit" /\ last'.res = "Ok") =>
            \A T \in Tables, id \in KeyVals :
                IsSome(tx[last'.t].buf[TupleKey(T, id)]) =>
                    TupleKey(T, id) \notin tx[last'.t].stale]_vars

\* the second half alone: of two transactions open at the same time that both
\* appended the same primary key, the later committer fails
C11_SameKeyAppendsConflict ==
    [][(last'.op = "commit" /\ last'.res = "Ok") =>
            \A T \in Tables, id \in KeyVals :
                IsSome(tx[last'.t].buf[TupleKey(T, id)]) =>
                    TupleKey(T, id) \notin tx[last'.t].stale]_vars

WriteOps == {"create_table", "drop_table", "append", "delete", "add_index", "del_index"}

\* C12: a write call of a transaction changes neither the committed store nor
\* anything another transaction holds; a handle dropped without commit (or
\* whose commit fails) leaves the committed store as it was; a successful
\* commit puts every buffered write into the committed store in one step,
\* open transactions keep their view, and a transaction begun afterwards sees
\* exactly the committed store.
C12_WritesVisibleAtCommit ==
    [][LET t == last'.t
       IN /\ last'.op \in WriteOps =>
                /\ store' = store
                /\ \A u \in Txs \ {t} : tx'[u] = tx[u]
          /\ (last'.op = "rollback" \/ last'.res \in {"panic", "Conflict"}) =>
                /\ store' = store
                /\ \A u \in Txs \ {t} : tx'[u] = tx[u]
          /\ (last'.op = "commit" /\ last'.res = "Ok") =>
                /\ \A k \in Keys :
                    store'[k] = IF tx[t].buf[k] # NoEntry THEN tx[t].buf[k] ELSE store[k]
                /\ \A u \in Txs \ {t} :
                    tx[u].active => ViewOf(tx'[u].snap, tx'[u].buf) = View(u)
          /\ last'.op = "transaction" =>
                /\ store' = store
                /\ ViewOf(tx'[t].snap, tx'[t].buf) = store]_vars

\* a commit has just succeeded while another transaction is open, and that
\* transaction does not see a key the commit wrote
C12_Witness ==
    /\ last.op = "commit"
    /\ last.res = "Ok"
    /\ \E u \in Txs, k \in Keys :
        /\ tx[u].active
        /\ IsSome(store[k])
        /\ ~IsSome(View(u)[k])

\* ------------------------------------------------------------ index scans
\* A committed table t1 (a primary, b unique) that holds the rows with keys
\* 0..n-1, each with its entry in the primary index (id 0) and in the index
\* on b (id 1), as create_table followed by paired add_index and append calls
\* and a commit leave it.  b is the key itself, or runs against it.
ScanTable == "t1"
ScanB(id, against) == IF against THEN MaxScanKey - id ELSE id
ScanRow(id, against) == [id |-> id, values |-> <<id, ScanB(id, against)>>]
ScanIndex(iid, v) == [id |-> iid, column_values |-> <<v>>]

ScanCatalogWrites ==
    <<encode_root_table(ScanTable)>>
        \o create_table_writes(ScanTable, TableCatalog_new(ColsB)).writes

ScanRowWrites(n, against) ==
    [j \in 1..(3 * n) |->
        LET id == (j - 1) \div 3
        IN CASE (j - 1) % 3 = 0 -> encode_index(ScanTable, ScanIndex(0, id), <<id>>)
             [] (j - 1) % 3 = 1 ->
                    encode_index(ScanTable, ScanIndex(1, ScanB(id, against)), <<id>>)
             [] OTHER -> encode_tuple(ScanTable, ScanRow(id, against))]

ScanStore(n, against) == SetAll(EmptyKV, ScanCatalogWrites \o ScanRowWrites(n, against))

ScanGhost(n, against) ==
    [made |-> [T \in Tables |->
                IF T = ScanTable THEN [there |-> TRUE, cols |-> ColsB]
                ELSE [there |-> FALSE, cols |-> <<>>]],
     rows |-> [T \in Tables |-> [id \in StoredVals |->
                IF T = ScanTable /\ id < n THEN ScanRow(id, against).values ELSE <<>>]],
     idx |-> [T \in Tables |-> [ik \in (0..1) \X StoredVals |->
                IF T # ScanTable THEN <<>>
                ELSE IF ik[1] = 0
                     THEN (IF ik[2] < n THEN <<ik[2]>> ELSE <<>>)
                     ELSE LET ids == {id \in 0..(n - 1) : ScanB(id, against) = ik[2]}
                          IN IF ids = {} THEN <<>> ELSE <<CHOOSE id \in ids : TRUE>>]]]

InitScan ==
    \E n \in 0..(MaxScanKey + 1), against \in BOOLEAN :
        /\ store = ScanStore(n, against)
        /\ tx = [t \in Txs |-> IdleTx]
        /\ iters = [i \in IterIds |-> IdleIter]
        /\ index_iters = [i \in IterIds |-> IdleIndexIter]
        /\ ops = 0
        /\ last = Call("new", 0, "", <<>>, "Ok", <<>>)
        /\ binder = NewBinder
        /\ builder = NewBuilder
        /\ ghost = [committed |-> ScanGhost(n, against), tx |-> [t \in Txs |-> EmptyGhost],
                    base |-> [t \in Txs |-> EmptyGhost], read |-> {}]

\* the index metas of the table, as table() returns them
ScanMetas == {m \in Range(create_table_writes(ScanTable, TableCatalog_new(ColsB)).table.indexes) : TRUE}

BinaryLists ==
    {<<Eq(0), Scope(Included(2), Included(4))>>,
     <<Scope(Included(2), Included(4)), Eq(0)>>,
     <<Scope(Excluded(0), Unbounded)>>,
     <<Eq(1), Eq(1)>>,
     <<Scope(Unbounded, Excluded(2)), Scope(Included(1), Unbounded)>>,
     <<>>}
ScanBounds == {<<-1, -1>>, <<0, 1>>, <<1, 1>>, <<2, 0>>, <<1, -1>>}
ScanProjections == {<<1, 2>>}

NextScan ==
    \/ \E t \in SeqTxs : transaction(t)
    \/ \E t \in SeqTxs : rollback(t)
    \/ \E t \in SeqTxs, iid \in 0..1 : del_index(t, ScanTable, ScanIndex(iid, 1))
    \/ \E t \in SeqTxs : delete(t, ScanTable, 1)
    \/ \E t \in SeqTxs, i \in SeqIters, b \in ScanBounds, p \in ScanProjections,
          m \in ScanMetas, bs \in BinaryLists :
            read_by_index(t, i, ScanTable, b, p, m, bs)
    \/ \E i \in SeqIters : IndexIter_next_tuple(i)
    \/ \E i \in SeqIters : IndexIter_close(i)

SpecScan == InitScan /\ [][NextScan]_vars

RECURSIVE Concat(_)
Concat(seqs) == IF Len(seqs) = 0 THEN <<>> ELSE Head(seqs) \o Concat(Tail(seqs))

\* the tuple ids one predicate selects in a view: those stored under the
\* index keys it covers, in ascending key order, whose rows are there
BinaryIds(view, T, iid, binary) ==
    LET vs == SelectSeq([n \in 1..(MaxStored + 1) |-> n - 1],
                LAMBDA v : /\ IsSome(view[IdxKey(T, iid, v)])
                           /\ IF binary.kind = "Eq" THEN v = binary.v
                              ELSE above_min(binary.min, v) /\ below_max(binary.max, v))
    IN SelectSeq(Concat([n \in 1..Len(vs) |-> view[IdxKey(T, iid, vs[n])].v]),
                 LAMBDA id : IsSome(view[TupleKey(T, id)]))

SelectedIds(view, T, iid, binaries) ==
    Concat([n \in 1..Len(binaries) |-> BinaryIds(view, T, iid, binaries[n])])

OutIds(out) == [n \in 1..Len(out) |-> out[n].id]

\* C13: a finished index scan without offset and limit has yielded, predicate
\* by predicate in queue order, the tuples stored under the index keys each
\* predicate covers, in ascending key order within a Scope; over a primary
\* index with keys 0..4, [Eq(0), Scope{Included(2), Included(4)}] yields the
\* ids 0, 2, 3, 4.
C13_IndexIterOrder ==
    \A i \in IterIds :
        LET it == index_iters[i]
        IN (it.open /\ it.done /\ it.bounds[1] \in {-1, 0} /\ it.bounds[2] = -1) =>
            /\ OutIds(it.out) =
                    SelectedIds(View(it.t), it.tbl, it.index_meta.id, it.asked)
            /\ (/\ it.asked = <<Eq(0), Scope(Included(2), Included(4))>>
                /\ it.index_meta.is_primary
                /\ {id \in StoredVals : IsSome(View(it.t)[TupleKey(it.tbl, id)])} = 0..4
                /\ \A id \in 0..4 : IsSome(View(it.t)[IdxKey(it.tbl, 0, id)]))
                    => OutIds(it.out) = <<0, 2, 3, 4>>

\* the scan of the example has finished on the table with keys 0..4
C13_Witness ==
    \E i \in IterIds :
        /\ index_iters[i].open /\ index_iters[i].done
        /\ index_iters[i].asked = <<Eq(0), Scope(Included(2), Included(4))>>
        /\ index_iters[i].index_meta.is_primary
        /\ index_iters[i].bounds = <<-1, -1>>
        /\ {id \in StoredVals :
                IsSome(View(index_iters[i].t)[TupleKey(index_iters[i].tbl, id)])} = 0..4
        /\ Len(index_iters[i].out) = 4

\* the tuples a scan without offset and limit would yield for the predicates
SelectedTuples(view, T, iid, binaries, projections) ==
    LET ids == SelectedIds(view, T, iid, binaries)
    IN [n \in 1..Len(ids) |->
            [id |-> ids[n],
             values |-> [j \in 1..Len(projections) |->
                            view[TupleKey(T, ids[n])].v[projections[j]]]]]

\* C14: a finished read_by_index with bounds (offset, limit) has yielded at
\* most limit tuples, none when the limit is 0, namely the tuples the
\* predicates select without their first offset tuples (index keys whose
\* entry or row is gone count for nothing), cut to limit; a Scope with
\* Excluded(min) and Unbounded max yields only tuples whose index key is
\* greater than min; over rows (0,0),(1,1),(2,2), bounds (Some(0), Some(1))
\* and Scope{Excluded(0), Unbounded} yield the one tuple with id 1 and values
\* [1,1].
C14_ReadByIndexWindow ==
    \A i \in IterIds :
        LET it == index_iters[i]
            view == View(it.t)
            full == SelectedTuples(view, it.tbl, it.index_meta.id, it.asked, it.projections)
            n == IF it.bounds[1] = -1 THEN 0 ELSE it.bounds[1]
            k == it.bounds[2]
        IN (it.open /\ it.done) =>
            /\ k # -1 => Len(it.out) <= k
            /\ it.out = SubSeq(full, n + 1,
                               IF k = -1 THEN Len(full) ELSE Min(Len(full), n + k))
            /\ \A j \in 1..Len(it.asked) :
                (/\ Len(it.asked) = 1
                 /\ it.asked[j].kind = "Scope"
                 /\ it.asked[j].min.b = "Excluded"
                 /\ it.asked[j].max.b = "Unbounded") =>
                    \A m \in 1..Len(it.out) :
                        it.out[m].values[it.index_meta.column_ids[1] + 1] > it.asked[j].min.v
            /\ (/\ it.asked = <<Scope(Excluded(0), Unbounded)>>
                /\ it.bounds = <<0, 1>>
                /\ it.projections = <<1, 2>>
                /\ \A id \in StoredVals :
                    view[TupleKey(it.tbl, id)] =
                        IF id <= 2 THEN Value(<<id, id>>) ELSE NoEntry
                /\ \A iid \in 0..1, v \in StoredVals :
                    view[IdxKey(it.tbl, iid, v)] =
                        IF v <= 2 THEN Value(<<v>>) ELSE NoEntry)
                    => it.out = <<[id |-> 1, values |-> <<1, 1>>]>>

\* the scan of the example has finished on the rows (0,0),(1,1),(2,2), over
\* the index on b
C14_Witness ==
    \E i \in IterIds :
        /\ index_iters[i].open /\ index_iters[i].done
        /\ index_iters[i].asked = <<Scope(Excluded(0), Unbounded)>>
        /\ index_iters[i].bounds = <<0, 1>>
        /\ index_iters[i].index_meta.name = "uk_b"
        /\ \A id \in StoredVals :
            View(index_iters[i].t)[TupleKey(index_iters[i].tbl, id)] =
                IF id <= 2 THEN Value(<<id, id>>) ELSE NoEntry
        /\ Len(index_iters[i].out) = 1

\* a finished scan with an offset that passed over an index key whose entry
\* had been removed
C14_OffsetWitness ==
    \E i \in IterIds :
        /\ index_iters[i].open /\ index_iters[i].done
        /\ index_iters[i].bounds[1] > 0
        /\ index_iters[i].out # <<>>
        /\ \E v \in StoredVals :
            View(index_iters[i].t)[IdxKey(index_iters[i].tbl,
                                          index_iters[i].index_meta.id, v)] = Tombstone

\* the errors a write operation returns to its caller
WriteErrors == {"DuplicatePrimaryKey", "DuplicateUniqueValue", "TableExists", "CatalogError"}

\* C15: a call of append, add_index or create_table that returns
\* DuplicatePrimaryKey, DuplicateUniqueValue, TableExists or a catalog
\* construction error leaves the pending writes and the catalog cache of its
\* transaction as they were before the call.
C15_FailedWriteLeavesTx ==
    [][(/\ last' # last
        /\ last'.op \in {"append", "add_index", "create_table"}
        /\ last'.res \in WriteErrors)
            => /\ tx'[last'.t].buf = tx[last'.t].buf
               /\ tx'[last'.t].cache = tx[last'.t].cache]_vars

\* the failed calls that do leave the transaction alone: a duplicate primary
\* key, an existing table
C15_RejectedBeforeWriting ==
    [][(/\ last' # last
        /\ last'.op \in {"append", "add_index", "create_table"}
        /\ last'.res \in WriteErrors \ {"CatalogError"})
            => tx' = tx]_vars

\* C16: a delete of tuple_id on T that succeeds changes, in what its
\* transaction sees, the tuple row of T with that id and nothing else: every
\* index entry, every other row and every catalog entry are as before, and so
\* is the catalog cache; a delete that fails changes nothing.
C16_DeleteFrame ==
    [][(last' # last /\ last'.op = "delete") =>
        LET t == last'.t
            key == TupleKey(last'.tbl, last'.arg[1])
        IN /\ tx'[t].cache = tx[t].cache
           /\ \A k \in Keys \ {key} :
                tx_get(tx'[t].snap, tx'[t].buf, k) = tx_get(tx[t].snap, tx[t].buf, k)
           /\ last'.res = "Ok" =>
                /\ IsSome(tx_get(tx[t].snap, tx[t].buf, key))
                /\ ~IsSome(tx_get(tx'[t].snap, tx'[t].buf, key))
           /\ last'.res # "Ok" => tx' = tx]_vars

\* a row has been deleted and the entries of both indexes that point to it
\* are still there
C16_Witness ==
    /\ last.op = "delete" /\ last.res = "Ok"
    /\ tx[last.t].active
    /\ ~IsSome(View(last.t)[TupleKey(last.tbl, last.arg[1])])
    /\ \E v \in StoredVals :
        /\ IsSome(View(last.t)[IdxKey(last.tbl, 1, v)])
        /\ decode_index(View(last.t)[IdxKey(last.tbl, 1, v)].v) = <<last.arg[1]>>
    /\ IsSome(View(last.t)[IdxKey(last.tbl, 0, last.arg[1])])

\* ------------------------------------------------------------------ binder
\* BTreeMap::insert: the new value replaces the old one
map_insert(m, k, v) == (k :> v) @@ m

\* the transaction the binder context refers to
BindTx == CHOOSE t \in SeqTxs : TRUE

\* BinderContext::table: a table alias is rewritten to the real name first
context_table(context, table_name) ==
    IF table_name \in DOMAIN context.table_aliases
    THEN context.table_aliases[table_name]
    ELSE table_name

\* the three registrations: the context after the call and its result
\* mutant: a repeated column alias is accepted
register_alias_silently(context, alias, expr) ==
    [context |-> [context EXCEPT !.aliases = map_insert(@, alias, expr)],
     res |-> "Ok"]

register_alias(context, alias, expr) ==
    [context |-> [context EXCEPT !.aliases = map_insert(@, alias, expr)],
     res |-> IF alias \in DOMAIN context.aliases THEN "InvalidColumn" ELSE "Ok"]

register_table_alias(context, alias, table_name) ==
    [context |-> [context EXCEPT !.table_aliases = map_insert(@, alias, table_name)],
     res |-> IF alias \in DOMAIN context.table_aliases THEN "InvalidTable" ELSE "Ok"]

register_bind_table(context, table_name, table_catalog, join_type) ==
    [context |-> [context EXCEPT
                    !.bind_table = map_insert(@, table_name, <<table_catalog, join_type>>)],
     res |-> IF table_name \in DOMAIN context.bind_table THEN "InvalidTable" ELSE "Ok"]

BinderContext_new ==
    /\ tx[BindTx].active
    /\ binder' = NewBinder
    /\ UNCHANGED <<store, tx, iters, index_iters, ops, last, builder, ghost>>

add_alias(alias, expr) ==
    /\ ~binder.consumed
    /\ LET r == register_alias(binder.context, alias, expr)
       IN binder' = [binder EXCEPT !.context = r.context,
                        !.ret = BindCall("add_alias", <<alias, expr>>, r.res, <<>>)]
    /\ UNCHANGED <<store, tx, iters, index_iters, ops, last, builder, ghost>>

add_table_alias(alias, table_name) ==
    /\ ~binder.consumed
    /\ LET r == register_table_alias(binder.context, alias, table_name)
       IN binder' = [binder EXCEPT !.context = r.context,
                        !.ret = BindCall("add_table_alias", <<alias, table_name>>, r.res, <<>>)]
    /\ UNCHANGED <<store, tx, iters, index_iters, ops, last, builder, ghost>>

add_bind_table(table_name, table_catalog, join_type) ==
    /\ ~binder.consumed
    /\ LET r == register_bind_table(binder.context, table_name, table_catalog, join_type)
       IN binder' = [binder EXCEPT !.context = r.context,
                        !.ret = BindCall("add_bind_table", <<table_name, join_type>>, r.res, <<>>)]
    /\ UNCHANGED <<store, tx, iters, index_iters, ops, last, builder, ghost>>

\* a parsed statement, as far as bind looks at it
Stmt(kind, object_type, source, joins, from, projection) ==
    [kind |-> kind, object_type |-> object_type, source |-> source, joins |-> joins,
     from |-> from, projection |-> projection]

\* the FROM clause of a query: each table is resolved through the context,
\* its alias registered, and the table registered in bind_table; the first
\* error ends the binding
RECURSIVE bind_from(_, _, _)
bind_from(context, looked_up, from) ==
    IF Len(from) = 0 THEN [context |-> context, res |-> "Ok", looked_up |-> looked_up]
    ELSE LET ref == from[1]
             real == context_table(context, ref.name)
             found == IF real \in Tables THEN table_result(BindTx, real) ELSE NoCatalog
             seen == IF real \in Tables THEN Append(looked_up, real) ELSE looked_up
             a == IF ref.alias = "" THEN [context |-> context, res |-> "Ok"]
                  ELSE register_table_alias(context, ref.alias, ref.name)
             b == register_bind_table(a.context, ref.name, found, "None")
         IN IF ~found.ok
            THEN [context |-> context, res |-> "InvalidTable", looked_up |-> seen]
            ELSE IF a.res # "Ok"
            THEN [context |-> a.context, res |-> a.res, looked_up |-> seen]
            ELSE IF b.res # "Ok"
            THEN [context |-> b.context, res |-> b.res, looked_up |-> seen]
            ELSE bind_from(b.context, seen, Tail(from))

\* a bare identifier of the projection: an alias, else a column of exactly
\* one bound table
bind_column_ref(context, name) ==
    LET tables_with_column == {T \in DOMAIN context.bind_table :
                                name \in ColNames(context.bind_table[T][1].columns)}
    IN IF name \in DOMAIN context.aliases THEN "Ok"
       ELSE IF tables_with_column = {} THEN "InvalidColumn"
       ELSE IF Cardinality(tables_with_column) > 1 THEN "AmbiguousColumn"
       ELSE "Ok"

\* bind_query for SELECT projection FROM from
bind_query(context, stmt) ==
    LET f == bind_from(context, <<>>, stmt.from)
        bad == {j \in 1..Len(stmt.projection) :
                    bind_column_ref(f.context, stmt.projection[j]) # "Ok"}
        first == CHOOSE j \in bad : \A k \in bad : j <= k
    IN IF f.res # "Ok" THEN [context |-> f.context, res |-> f.res, plan |-> <<>>,
                             looked_up |-> f.looked_up]
       ELSE IF bad # {}
       THEN [context |-> f.context, looked_up |-> f.looked_up, plan |-> <<>>,
             res |-> bind_column_ref(f.context, stmt.projection[first])]
       ELSE [context |-> f.context, res |-> "Ok", looked_up |-> f.looked_up,
             plan |-> [kind |-> "Select", columns |-> stmt.projection,
                       tables |-> [j \in 1..Len(stmt.from) |-> stmt.from[j].name]]]

\* the statements that name one table and bind to a plan of their own kind
\* when the table exists
bind_on_table(context, stmt) ==
    LET real == context_table(context, stmt.from[1].name)
        found == IF real \in Tables THEN table_result(BindTx, real) ELSE NoCatalog
    IN [context |-> context,
        res |-> IF found.ok THEN "Ok" ELSE "InvalidTable",
        plan |-> IF found.ok THEN [kind |-> stmt.kind, table |-> stmt.from[1].name]
                 ELSE <<>>,
        looked_up |-> IF real \in Tables THEN <<real>> ELSE <<>>]

bind_plain(context, stmt) ==
    [context |-> context, res |-> "Ok", looked_up |-> <<>>,
     plan |-> [kind |-> stmt.kind, table |-> stmt.from[1].name]]

bind_panic(context) ==
    [context |-> context, res |-> "panic", plan |-> <<>>, looked_up |-> <<>>]

\* Binder::bind: the match over the statement kinds
bind_dispatch(context, stmt) ==
    CASE stmt.kind = "Query" -> bind_query(context, stmt)
      [] stmt.kind = "CreateTable" -> bind_plain(context, stmt)
      [] stmt.kind = "Drop" ->
            IF stmt.object_type = "Table" THEN bind_on_table(context, stmt)
            ELSE bind_panic(context)
      [] stmt.kind = "Insert" ->
            IF stmt.source = "Values" THEN bind_on_table(context, stmt)
            ELSE bind_panic(context)
      [] stmt.kind \in {"Update", "Delete"} ->
            IF stmt.joins # <<>> THEN bind_panic(context)
            ELSE bind_on_table(context, stmt)
      [] stmt.kind \in {"Truncate", "Copy"} -> bind_on_table(context, stmt)
      [] stmt.kind = "ShowTables" -> bind_plain(context, stmt)
      [] OTHER -> [context |-> context, res |-> "UnsupportedStmt", plan |-> <<>>,
                   looked_up |-> <<>>]

RECURSIVE cache_fill(_, _, _)
cache_fill(cache, t, looked_up) ==
    IF Len(looked_up) = 0 THEN cache
    ELSE cache_fill(cache_get_or_insert(cache, looked_up[1],
                                        table_result(t, looked_up[1])),
                    t, Tail(looked_up))

\* Binder::bind(stmt): the binder is consumed; the catalogs looked up on the
\* way stay in the cache of the transaction
bind(stmt) ==
    /\ ~binder.consumed
    /\ tx[BindTx].active
    /\ NoIterOpen(BindTx)
    /\ LET r == bind_dispatch(binder.context, stmt)
       IN /\ binder' = [context |-> r.context, consumed |-> TRUE,
                        ret |-> BindCall("bind", stmt, r.res, r.plan)]
          /\ tx' = [tx EXCEPT ![BindTx].cache = cache_fill(@, BindTx, r.looked_up)]
    /\ UNCHANGED <<store, iters, index_iters, ops, last, builder, ghost>>

\* the catalog of the binder tests: t1(c1 primary, c2 unique), t2(c3 primary, c4)
BindCols(T) ==
    IF T = "t1" THEN <<Col("c1", TRUE, FALSE), Col("c2", FALSE, TRUE)>>
    ELSE <<Col("c3", TRUE, FALSE), Col("c4", FALSE, FALSE)>>

BindStore ==
    LET writes(T) == <<encode_root_table(T)>>
                        \o create_table_writes(T, TableCatalog_new(BindCols(T))).writes
    IN SetAll(SetAll(EmptyKV, writes("t1")), writes("t2"))

InitBind ==
    /\ store = BindStore
    /\ tx = [t \in Txs |-> IF t = BindTx THEN [IdleTx EXCEPT !.active = TRUE, !.snap = BindStore]
                           ELSE IdleTx]
    /\ iters = [i \in IterIds |-> IdleIter]
    /\ index_iters = [i \in IterIds |-> IdleIndexIter]
    /\ ops = 0
    /\ last = Call("transaction", BindTx, "", <<>>, "Ok", <<>>)
    /\ binder = NewBinder
    /\ builder = NewBuilder
    /\ ghost = [committed |-> EmptyGhost, tx |-> [t \in Txs |-> EmptyGhost],
                base |-> [t \in Txs |-> EmptyGhost], read |-> {}]

\* from: the tables of the statement, each with its alias ("" for none)
Statements ==
    LET TableRef(name, alias) == [name |-> name, alias |-> alias]
    IN
    {Stmt("Query", "", "", <<>>, from, <<c>>) :
        from \in {<<TableRef("t1", "")>>, <<TableRef("t1", "a"), TableRef("t2", "a")>>,
                  <<TableRef("t1", "a"), TableRef("t2", "b")>>,
                  <<TableRef("t1", ""), TableRef("t1", "")>>, <<TableRef("t3", "")>>},
        c \in {"c1", "cX"}}
    \cup {Stmt("Drop", o, "", <<>>, <<TableRef("t1", "")>>, <<>>) :
            o \in {"Table", "View", "Index"}}
    \cup {Stmt("Insert", "", s, <<>>, <<TableRef("t1", "")>>, <<>>) :
            s \in {"Values", "Select"}}
    \cup {Stmt(k, "", "", j, <<TableRef("t1", "")>>, <<>>) :
            k \in {"Update", "Delete"}, j \in {<<>>, <<"t2">>}}
    \cup {Stmt(k, "", "", <<>>, <<TableRef(T, "")>>, <<>>) :
            k \in {"CreateTable", "Truncate", "ShowTables", "Copy",
                   "Commit", "CreateView"},
            T \in {"t1", "t3"}}

NextBind ==
    \/ BinderContext_new
    \/ \E alias \in {"a"}, expr \in {"c1", "c2"} : add_alias(alias, expr)
    \/ \E alias \in {"a", "b"}, T \in Tables : add_table_alias(alias, T)
    \/ \E T \in Tables, j \in {"None", "Inner"} :
            add_bind_table(T, table_result(BindTx, T), j)
    \/ \E stmt \in Statements : bind(stmt)

SpecBind == InitBind /\ [][NextBind]_vars

UnsupportedShape(stmt) ==
    \/ stmt.kind = "Insert" /\ stmt.source # "Values"
    \/ stmt.kind \in {"Update", "Delete"} /\ stmt.joins # <<>>
    \/ stmt.kind = "Drop" /\ stmt.object_type # "Table"
    \/ stmt.kind \notin {"Query", "CreateTable", "Drop", "Insert", "Update", "Delete",
                         "Truncate", "ShowTables", "Copy"}

BindErrors ==
    {"UnsupportedStmt", "InvalidTable", "InvalidTableName", "InvalidColumn",
     "AmbiguousColumn", "BinaryOpTypeMismatch", "Subquery", "AggMiss", "CatalogError",
     "TypeError", "UnsupportedCopySource"}

\* C17: bind returns a plan or a BindError for every statement, and
\* UnsupportedStmt for every unsupported shape: an INSERT whose source is not
\* a VALUES list, an UPDATE or DELETE with joins, a DROP of something that is
\* not a table, a statement kind outside the list.
C17_BindTotal ==
    binder.ret.op = "bind" =>
        /\ binder.ret.res \in {"Ok"} \cup BindErrors
        /\ UnsupportedShape(binder.ret.arg) => binder.ret.res = "UnsupportedStmt"

\* what does hold: a statement kind outside the list yields UnsupportedStmt,
\* and bind aborts only on the three shapes it leaves unimplemented
C17_UnrecognisedKindUnsupported ==
    binder.ret.op = "bind" =>
        /\ binder.ret.arg.kind \notin {"Query", "CreateTable", "Drop", "Insert", "Update",
                                      "Delete", "Truncate", "ShowTables", "Copy"}
                => binder.ret.res = "UnsupportedStmt"
        /\ binder.ret.res = "panic" =>
                /\ UnsupportedShape(binder.ret.arg)
                /\ binder.ret.arg.kind \in {"Drop", "Insert", "Update", "Delete"}

\* C18: in one BinderContext, add_alias fails with InvalidColumn exactly when
\* the column alias is already registered, add_table_alias and add_bind_table
\* fail with InvalidTable exactly when the table alias or the table name is
\* already registered, and each succeeds otherwise; binding
\* SELECT c1 FROM t1 AS a, t2 AS a in a new context fails with InvalidTable,
\* while the same query with the aliases a and b binds.
C18_DuplicateRegistrationFails ==
    [][binder' # binder =>
        LET c == binder.context
            r == binder'.ret
        IN /\ r.op = "add_alias" =>
                r.res = IF r.arg[1] \in DOMAIN c.aliases THEN "InvalidColumn" ELSE "Ok"
           /\ r.op = "add_table_alias" =>
                r.res = IF r.arg[1] \in DOMAIN c.table_aliases THEN "InvalidTable" ELSE "Ok"
           /\ r.op = "add_bind_table" =>
                r.res = IF r.arg[1] \in DOMAIN c.bind_table THEN "InvalidTable" ELSE "Ok"
           /\ (/\ r.op = "bind" /\ c = NewContext
               /\ r.arg.kind = "Query" /\ r.arg.projection = <<"c1">>
               /\ Len(r.arg.from) = 2
               /\ r.arg.from[1].name = "t1" /\ r.arg.from[2].name = "t2"
               /\ r.arg.from[1].alias = "a")
                    => r.res = IF r.arg.from[2].alias = "a" THEN "InvalidTable" ELSE "Ok"]_vars

\* a table alias has been registered a second time and refused, in a context
\* that holds a column alias and a bound table as well
C18_Witness ==
    /\ binder.ret.op = "add_table_alias" /\ binder.ret.res = "InvalidTable"
    /\ DOMAIN binder.context.aliases # {}
    /\ DOMAIN binder.context.bind_table # {}

\* the query of the example has failed on its second alias, after t1 was
\* bound under the first
C18_ExampleWitness ==
    /\ binder.ret.op = "bind" /\ binder.ret.res = "InvalidTable"
    /\ Len(binder.ret.arg.from) = 2
    /\ binder.ret.arg.from[2].alias = "a"
    /\ DOMAIN binder.context.bind_table = {"t1"}
    /\ DOMAIN binder.context.table_aliases = {"a"}

\* ------------------------------------------------------- physical planner
\* A LogicalSelectPlan is given by the operators on its child(0) path, root
\* first; a physical tree by its nodes, root first (each has one input).
\* mutant: the id is handed out but the counter stays
next_plan_id_stuck(plan_id) == [id |-> plan_id, plan_id |-> plan_id]

\* next_plan_id: the current id, and the counter after it
next_plan_id(plan_id) == [id |-> plan_id, plan_id |-> plan_id + 1]

\* mutant: a scan is lowered to a projection without input
build_physical_scan_as_projection(plan_id, scan) ==
    LET n == next_plan_id(plan_id)
    IN [plan_id |-> n.plan_id, res |-> "Ok",
        plan |-> <<[op |-> "Projection", plan_id |-> n.id, exprs |-> <<>>]>>]

build_physical_scan(plan_id, scan) ==
    LET n == next_plan_id(plan_id)
    IN [plan_id |-> n.plan_id, res |-> "Ok",
        plan |-> <<[op |-> "TableScan", plan_id |-> n.id, base |-> scan]>>]

\* build_select_logical_plan and build_physical_projection: the input is
\* built first, the projection takes its id afterwards; an operator that is
\* neither Project nor Scan, or a Project without child, is an error
RECURSIVE build_select_logical_plan(_, _)
build_select_logical_plan(plan_id, plan) ==
    LET op == plan[1]
        input == build_select_logical_plan(plan_id, Tail(plan))
        n == next_plan_id(input.plan_id)
    IN CASE op.kind = "Project" ->
                IF Len(plan) = 1 THEN [plan_id |-> plan_id, res |-> "Err", plan |-> <<>>]
                ELSE IF input.res # "Ok" THEN input
                ELSE [plan_id |-> n.plan_id, res |-> "Ok",
                      plan |-> <<[op |-> "Projection", plan_id |-> n.id,
                                  exprs |-> op.columns]>> \o input.plan]
         [] op.kind = "Scan" -> build_physical_scan(plan_id, op)
         [] OTHER -> [plan_id |-> plan_id, res |-> "Err", plan |-> <<>>]

build_create_table_logic_plan(plan_id, operator) ==
    [plan_id |-> plan_id, res |-> "Ok",
     plan |-> <<[op |-> "CreateTable", table_name |-> operator.table_name,
                 columns |-> operator.columns]>>]

build_insert_logic_plan(plan_id, operator) ==
    [plan_id |-> plan_id, res |-> "Ok",
     plan |-> <<[op |-> "Insert", table_name |-> operator.table,
                 col_idxs |-> operator.col_idxs, cols |-> operator.cols]>>]

\* the plan ids a physical tree carries
PlanIds(plan) ==
    {plan[j].plan_id : j \in {k \in 1..Len(plan) : plan[k].op \in {"Projection", "TableScan"}}}

PhysicalPlanBuilder_new ==
    /\ builder' = NewBuilder
    /\ UNCHANGED <<store, tx, iters, index_iters, ops, last, binder, ghost>>

build_plan(plan) ==
    /\ builder.plan_id + MaxChain <= MaxPlanId + 1
    /\ LET r == CASE plan.kind = "Select" ->
                        build_select_logical_plan(builder.plan_id, plan.chain)
                  [] plan.kind = "CreateTable" ->
                        build_create_table_logic_plan(builder.plan_id, plan.operator)
                  [] plan.kind = "Insert" ->
                        build_insert_logic_plan(builder.plan_id, plan.operator)
       IN builder' = [plan_id |-> r.plan_id,
                      issued |-> builder.issued \cup PlanIds(r.plan),
                      built |-> [op |-> "build_plan", arg |-> plan, res |-> r.res,
                                 plan |-> r.plan]]
    /\ UNCHANGED <<store, tx, iters, index_iters, ops, last, binder, ghost>>

\* the plans handed to build_plan: Select plans over Project, Scan and Filter
\* (for the operators the planner does not lower), with Scan as a leaf
LogicalPlans ==
    LET Operators ==
            {[kind |-> "Project", columns |-> <<c>>] : c \in {"c1", "c2"}}
            \cup {[kind |-> "Scan", table |-> "t1"], [kind |-> "Filter"]}
        RECURSIVE Chains(_)
        Chains(n) ==
            IF n = 1 THEN {<<op>> : op \in Operators}
            ELSE {<<op>> \o c : op \in {o \in Operators : o.kind # "Scan"},
                                c \in Chains(n - 1)}
    IN {[kind |-> "Select", chain |-> c] : c \in UNION {Chains(n) : n \in 1..MaxChain}}
       \cup {[kind |-> "CreateTable",
              operator |-> [table_name |-> T, columns |-> BindCols(T)]] : T \in Tables}
       \cup {[kind |-> "Insert",
              operator |-> [table |-> T, col_idxs |-> <<0, 1>>, cols |-> <<<<0>>, <<v>>>>]] :
                   T \in Tables, v \in 0..1}

NextPlan ==
    \/ PhysicalPlanBuilder_new
    \/ \E plan \in LogicalPlans : build_plan(plan)

SpecPlan == Init /\ [][NextPlan]_vars

\* in a physical tree, every node that carries a plan id has a greater one
\* than the nodes below it
PostOrder(plan) ==
    \A j, k \in 1..Len(plan) :
        (j < k /\ {plan[j].op, plan[k].op} \subseteq {"Projection", "TableScan"})
            => plan[j].plan_id > plan[k].plan_id

\* C19 as stated: in every tree build_plan returns the plan ids are in
\* post-order, the counter has gone up by one for every physical node the
\* call created, and no id of the tree was handed out by the builder before.
C19_CounterPerNode ==
    [][(builder' # builder /\ builder'.built.op = "build_plan") =>
        /\ PostOrder(builder'.built.plan)
        /\ builder'.plan_id = builder.plan_id + Len(builder'.built.plan)
        /\ PlanIds(builder'.built.plan) \cap builder.issued = {}]_vars

\* C19 amended: the plan ids of every tree build_plan returns are in
\* post-order; the counter goes up by one for every Projection and TableScan
\* node created, the ids of the tree being the counter values passed, and
\* stays for the CreateTable and Insert nodes, which carry no plan id, and
\* for a failed build; no id of the tree was handed out by the builder before.
C19_PlanIdsPostOrder ==
    [][(builder' # builder /\ builder'.built.op = "build_plan") =>
        LET plan == builder'.built.plan
        IN /\ PostOrder(plan)
           /\ PlanIds(plan) = builder.plan_id..(builder'.plan_id - 1)
           /\ builder'.built.res = "Ok" /\ builder'.built.arg.kind = "Select"
                => /\ builder'.plan_id = builder.plan_id + Len(plan)
                   /\ plan[1].plan_id = builder'.plan_id - 1
           /\ builder'.built.res = "Ok" /\ builder'.built.arg.kind # "Select"
                => Len(plan) = 1 /\ builder'.plan_id = builder.plan_id
           /\ builder'.built.res # "Ok" => builder'.plan_id = builder.plan_id
           /\ PlanIds(plan) \cap builder.issued = {}]_vars

\* a tree of three nodes has been built by a builder that had handed out ids
\* before
C19_Witness ==
    /\ builder.built.op = "build_plan" /\ builder.built.res = "Ok"
    /\ Len(builder.built.plan) = 3
    /\ builder.issued \ PlanIds(builder.built.plan) # {}

\* a CreateTable node has been built by a builder that had handed out ids
C19_CreateTableWitness ==
    /\ builder.built.op = "build_plan" /\ builder.built.res = "Ok"
    /\ builder.built.arg.kind = "CreateTable"
    /\ builder.issued # {}

\* a chain of Project operators ending in a Scan
IsProjectChain(chain) ==
    /\ chain[Len(chain)].kind = "Scan"
    /\ \A j \in 1..(Len(chain) - 1) : chain[j].kind = "Project"

\* C20: build_plan of a Select plan succeeds exactly when the plan is a chain
\* of Project operators ending in a Scan, and then returns the tree of the
\* same shape, a Projection with the expressions of each Project over a
\* TableScan of the Scan; with any other operator as the root or on the chain
\* it returns an error; CreateTable and Insert plans always succeed with a
\* node that carries the table name and the columns of the logical operator.
C20_BuildPlanShape ==
    builder.built.op = "build_plan" =>
        LET arg == builder.built.arg
            plan == builder.built.plan
        IN /\ arg.kind = "Select" =>
                /\ builder.built.res = IF IsProjectChain(arg.chain) THEN "Ok" ELSE "Err"
                /\ builder.built.res = "Ok" =>
                    /\ Len(plan) = Len(arg.chain)
                    /\ \A j \in 1..(Len(plan) - 1) :
                        /\ plan[j].op = "Projection"
                        /\ plan[j].exprs = arg.chain[j].columns
                    /\ plan[Len(plan)].op = "TableScan"
                    /\ plan[Len(plan)].base = arg.chain[Len(plan)]
                /\ builder.built.res # "Ok" => plan = <<>>
           /\ arg.kind = "CreateTable" =>
                /\ builder.built.res = "Ok"
                /\ Len(plan) = 1 /\ plan[1].op = "CreateTable"
                /\ plan[1].table_name = arg.operator.table_name
                /\ plan[1].columns = arg.operator.columns
           /\ arg.kind = "Insert" =>
                /\ builder.built.res = "Ok"
                /\ Len(plan) = 1 /\ plan[1].op = "Insert"
                /\ plan[1].table_name = arg.operator.table
                /\ plan[1].col_idxs = arg.operator.col_idxs
                /\ plan[1].cols = arg.operator.cols

\* two projections over a scan have been lowered
C20_Witness ==
    /\ builder.built.op = "build_plan" /\ builder.built.res = "Ok"
    /\ builder.built.arg.kind = "Select"
    /\ Len(builder.built.arg.chain) = 3
    /\ builder.built.plan[1].op = "Projection"

\* a Select with a Filter below its Project has been refused
C20_ErrorWitness ==
    /\ builder.built.op = "build_plan" /\ builder.built.res = "Err"
    /\ Len(builder.built.arg.chain) = 2
    /\ builder.built.arg.chain[1].kind = "Project"
    /\ builder.built.arg.chain[2].kind = "Filter"

\* ---------------------------------------------------- input-reference index
\* mutant: the group keys are laid out before the aggregates
input_ref_index_groups_first(context, ty) ==
    IF ty = "AggCall" THEN Len(context.agg_calls) + Len(context.group_by_exprs)
    ELSE Len(context.group_by_exprs)

\* BinderContext::input_ref_index
input_ref_index(context, ty) ==
    IF ty = "AggCall" THEN Len(context.agg_calls)
    ELSE Len(context.agg_calls) + Len(context.group_by_exprs)

\* a call of input_ref_index on the context; the index is kept as the result
BinderContext_input_ref_index(ty) ==
    /\ ~binder.consumed
    /\ binder' = [binder EXCEPT
                    !.ret = BindCall("input_ref_index", ty, "Ok",
                                     input_ref_index(binder.context, ty))]
    /\ UNCHANGED <<store, tx, iters, index_iters, ops, last, builder, ghost>>

\* contexts as the binding of a SELECT leaves them: up to MaxRefs aggregate
\* calls and up to MaxRefs group-by expressions
InitRef ==
    \E aggs \in UNION {[1..n -> {"count(c1)", "sum(c2)"}] : n \in 0..MaxRefs},
       groups \in UNION {[1..n -> {"c1", "c2"}] : n \in 0..MaxRefs} :
        /\ store = BindStore
        /\ tx = [t \in Txs |-> IF t = BindTx
                               THEN [IdleTx EXCEPT !.active = TRUE, !.snap = BindStore]
                               ELSE IdleTx]
        /\ iters = [i \in IterIds |-> IdleIter]
        /\ index_iters = [i \in IterIds |-> IdleIndexIter]
        /\ ops = 0
        /\ last = Call("transaction", BindTx, "", <<>>, "Ok", <<>>)
        /\ binder = [NewBinder EXCEPT !.context.agg_calls = aggs,
                                      !.context.group_by_exprs = groups]
        /\ builder = NewBuilder
        /\ ghost = [committed |-> EmptyGhost, tx |-> [t \in Txs |-> EmptyGhost],
                    base |-> [t \in Txs |-> EmptyGhost], read |-> {}]

NextRef == \E ty \in {"AggCall", "GroupBy"} : BinderContext_input_ref_index(ty)

SpecRef == InitRef /\ [][NextRef]_vars

\* C21: input_ref_index returns the number of aggregate calls for AggCall and
\* the number of aggregate calls plus the number of group-by expressions for
\* GroupBy; so the GroupBy index of a context is never below its AggCall
\* index, the aggregates take the positions before the AggCall index and the
\* group keys the positions from there up to the GroupBy index.
C21_InputRefIndex ==
    binder.ret.op = "input_ref_index" =>
        LET c == binder.context
            row == c.agg_calls \o c.group_by_exprs
            agg == input_ref_index(c, "AggCall")
            grp == input_ref_index(c, "GroupBy")
        IN /\ binder.ret.arg = "AggCall" => binder.ret.plan = Cardinality(DOMAIN c.agg_calls)
           /\ binder.ret.arg = "GroupBy" =>
                binder.ret.plan = Cardinality(DOMAIN c.agg_calls)
                                    + Cardinality(DOMAIN c.group_by_exprs)
           /\ grp >= agg
           /\ grp = Len(row)
           /\ SubSeq(row, 1, agg) = c.agg_calls
           /\ SubSeq(row, agg + 1, grp) = c.group_by_exprs

\* the GroupBy index has been asked of a context that holds aggregate calls
\* and group-by expressions
C21_Witness ==
    /\ binder.ret.op = "input_ref_index" /\ binder.ret.arg = "GroupBy"
    /\ Len(binder.context.agg_calls) = 2
    /\ Len(binder.context.group_by_exprs) = 1
    /\ binder.ret.plan = 3

\* C22: in every state of a transaction, a catalog that its cache holds for T
\* is the catalog that the rebuild from the transaction's column and
\* index-meta entries of T gives, so that table(T) returns the same on a hit
\* as on a miss.
C22_CacheIsDerivedView ==
    \A t \in Txs, T \in Tables :
        (tx[t].active /\ tx[t].cache[T].ok) =>
            tx[t].cache[T] = table_miss(tx[t].snap, tx[t].buf, T)

\* what does hold: the cached catalog has the columns of the rebuilt one, and
\* its index metas are among the rebuilt ones
C22_CachedColumnsDerived ==
    \A t \in Txs, T \in Tables :
        (tx[t].active /\ tx[t].cache[T].ok) =>
            LET c == table_miss(tx[t].snap, tx[t].buf, T)
            IN /\ tx[t].cache[T].columns = c.columns
               /\ Range(tx[t].cache[T].indexes) \subseteq Range(c.indexes)

\* C23: a finished full scan of T has yielded the live rows of T, each
\* primary key once, in ascending order of the primary key, whatever the
\* order of the appends was; a row written again with is_overwrite is yielded
\* with the values written last.
C23_FullScanAscendingOnce ==
    \A i \in IterIds :
        (iters[i].open /\ iters[i].done /\ iters[i].bounds = <<-1, -1>>) =>
            LET it == iters[i]
                view == View(it.t)
            IN /\ \A m, n \in 1..Len(it.out) : m < n => it.out[m].id < it.out[n].id
               /\ {it.out[n].id : n \in 1..Len(it.out)}
                    = {id \in StoredVals : IsSome(view[TupleKey(it.tbl, id)])}
               /\ \A n \in 1..Len(it.out) :
                    /\ ghost.tx[it.t].rows[it.tbl][it.out[n].id] # <<>>
                    /\ it.out[n].values =
                        [j \in 1..Len(it.projections) |->
                            ghost.tx[it.t].rows[it.tbl][it.out[n].id][it.projections[j]]]

\* a finished full scan has yielded row 0 before row 1, row 1 having been
\* committed before row 0 was appended, and row 0 carries values written
\* with is_overwrite
C23_Witness ==
    \E i \in IterIds :
        /\ iters[i].open /\ iters[i].done /\ iters[i].bounds = <<-1, -1>>
        /\ Len(iters[i].out) = 2
        /\ iters[i].out[1].id = 0
        /\ store[TupleKey(iters[i].tbl, 0)] = NoEntry
        /\ IsSome(store[TupleKey(iters[i].tbl, 1)])
        /\ tx[iters[i].t].buf[TupleKey(iters[i].tbl, 0)] = Value(<<0, 1>>)

\* ------------------------------------------------- cursors over two tables
\* Scans by two cursors of one transaction over a table that has rows,
\* index entries and catalog entries, beside a second table with rows of its
\* own (its second value is one no row of the first table has).
OtherTable == CHOOSE T \in Tables : T # ScanTable

NextCur ==
    \/ \E t \in SeqTxs : transaction(t)
    \/ \E t \in SeqTxs : create_table(t, OtherTable, ColsA, FALSE)
    \/ \E t \in SeqTxs, id \in KeyVals :
            append(t, OtherTable, [id |-> id, values |-> <<id, MaxStored + 1>>], FALSE)
    \/ \E t \in SeqTxs, i \in IterIds, T \in Tables, b \in {<<-1, -1>>, <<1, 1>>} :
            read(t, i, T, b, <<1, 2>>)
    \/ \E i \in IterIds : next_tuple(i)
    \/ \E i \in IterIds : close(i)

SpecCur == InitScan /\ [][NextCur]_vars

\* C24: every tuple a cursor of read(T, ...) has yielded is a row of T: its
\* id is the key of a live entry of the tuple family of T and its values are
\* the projection of that entry; so it is no row of another table and no
\* root, column, index-meta or index entry.
C24_ReadYieldsOwnRows ==
    \A i \in IterIds :
        iters[i].open =>
            \A n \in 1..Len(iters[i].out) :
                LET it == iters[i]
                    e == View(it.t)[TupleKey(it.tbl, it.out[n].id)]
                IN /\ it.out[n].id \in StoredVals
                   /\ IsSome(e)
                   /\ it.out[n].values = [j \in 1..Len(it.projections) |->
                                            e.v[it.projections[j]]]

\* a scan of the table with index entries has finished with rows yielded
\* while the other table holds a row, and a scan of the other table likewise
C24_Witness ==
    \E i, j \in IterIds :
        /\ iters[i].open /\ iters[i].done /\ iters[i].tbl = ScanTable
        /\ iters[i].out # <<>>
        /\ iters[j].open /\ iters[j].done /\ iters[j].tbl = OtherTable
        /\ iters[j].out # <<>>
        /\ IsSome(View(iters[i].t)[IdxKey(ScanTable, 1, 0)])

\* the tuples a cursor with the given bounds yields when it is advanced
\* alone over the entries of its tuple family: the offset passes over that
\* many entries, removed ones included, then the entries that carry a value
\* are yielded up to the limit
AloneScan(view, T, bounds, projections) ==
    LET n == IF bounds[1] = -1 THEN 0 ELSE bounds[1]
        entries == SelectSeq(tuple_bound(T), LAMBDA k : view[k].k # "none")
        rest == SelectSeq(SubSeq(entries, n + 1, Len(entries)), LAMBDA k : IsSome(view[k]))
        cut == IF bounds[2] = -1 THEN rest ELSE SubSeq(rest, 1, Min(Len(rest), bounds[2]))
    IN [m \in 1..Len(cut) |->
            [id |-> cut[m][3],
             values |-> [j \in 1..Len(projections) |-> view[cut[m]].v[projections[j]]]]]

IsPrefix(s, r) == Len(s) <= Len(r) /\ SubSeq(r, 1, Len(s)) = s

\* C25: two cursors of one transaction are independent: a next_tuple on one
\* of them leaves the other cursor and the transaction as they were, and at
\* every point of any interleaving each cursor has yielded a prefix of the
\* sequence it yields when advanced alone with its own offset and limit, the
\* whole of it once it is finished.
C25_CursorsIndependent ==
    [][\A i \in IterIds :
        LET it == iters'[i]
            alone == AloneScan(ViewOf(tx'[it.t].snap, tx'[it.t].buf), it.tbl,
                               it.bounds, it.projections)
        IN /\ (last'.op = "next_tuple" /\ iters'[i] # iters[i]) =>
                /\ \A j \in IterIds \ {i} : iters'[j] = iters[j]
                /\ tx' = tx /\ store' = store
           /\ it.open =>
                /\ IsPrefix(it.out, alone)
                /\ it.done => it.out = alone]_vars

\* both cursors are open on the same table with different bounds, one is
\* finished and the other has yielded a row and has more to yield
C25_Witness ==
    \E i, j \in IterIds :
        /\ i # j
        /\ iters[i].open /\ iters[j].open
        /\ iters[i].t = iters[j].t /\ iters[i].tbl = iters[j].tbl
        /\ iters[i].bounds # iters[j].bounds
        /\ iters[i].done /\ iters[i].out # <<>>
        /\ ~iters[j].done /\ iters[j].out # <<>>
        /\ Len(iters[j].out) < Len(AloneScan(View(iters[j].t), iters[j].tbl,
                                             iters[j].bounds, iters[j].projections))

\* C26: an add_alias, add_table_alias or add_bind_table that returns an
\* error for a name already registered leaves the context as it was: the
\* three maps still hold the first binding of the name.
C26_FailedRegistrationKeepsBinding ==
    [][(/\ binder' # binder
        /\ binder'.ret.op \in {"add_alias", "add_table_alias", "add_bind_table"}
        /\ binder'.ret.res \in {"InvalidColumn", "InvalidTable"})
            => binder'.context = binder.context]_vars

\* what does hold: a failed registration leaves the names of the three maps,
\* and the bindings of all other names, as they were
C26_FailedRegistrationKeepsNames ==
    [][(/\ binder' # binder
        /\ binder'.ret.op \in {"add_alias", "add_table_alias", "add_bind_table"}
        /\ binder'.ret.res \in {"InvalidColumn", "InvalidTable"})
            => LET name == binder'.ret.arg[1]
                   same(m2, m1) == /\ DOMAIN m2 = DOMAIN m1
                                   /\ \A k \in DOMAIN m1 \ {name} : m2[k] = m1[k]
               IN /\ same(binder'.context.aliases, binder.context.aliases)
                  /\ same(binder'.context.table_aliases, binder.context.table_aliases)
                  /\ same(binder'.context.bind_table, binder.context.bind_table)]_vars

\* C27: when drop_table(T) is followed by create_table(T, cols2), what the
\* transaction then holds for T, which its commit publishes and from which
\* table(T) of every later transaction is rebuilt, is the catalog with
\* exactly the columns cols2 and exactly the indexes derived from cols2, and
\* no tuple and no index entry of T.
C27_RecreatedTableIsFresh ==
    [][(/\ last.op = "drop_table" /\ last.res = "Ok"
        /\ last'.op = "create_table" /\ last'.res = "Ok" /\ last'.ret # <<>>
        /\ last'.t = last.t /\ last'.tbl = last.tbl)
            => LET t == last'.t
                   T == last'.tbl
                   rebuilt == table_miss(tx'[t].snap, tx'[t].buf, T)
                   fresh == create_table_writes(T, TableCatalog_new(last'.arg[1])).table
                   view == ViewOf(tx'[t].snap, tx'[t].buf)
               IN /\ rebuilt.ok
                  /\ rebuilt.columns = fresh.columns
                  /\ rebuilt.indexes = fresh.indexes
                  /\ \A id \in StoredVals : ~IsSome(view[TupleKey(T, id)])
                  /\ \A iid \in 0..1, v \in StoredVals : ~IsSome(view[IdxKey(T, iid, v)])]_vars

\* what does hold: the columns are exactly cols2, no tuple and no index entry
\* survives, and the indexes derived from cols2 are among the rebuilt ones
C27_RecreatedColumnsFresh ==
    [][(/\ last.op = "drop_table" /\ last.res = "Ok"
        /\ last'.op = "create_table" /\ last'.res = "Ok" /\ last'.ret # <<>>
        /\ last'.t = last.t /\ last'.tbl = last.tbl)
            => LET t == last'.t
                   T == last'.tbl
                   rebuilt == table_miss(tx'[t].snap, tx'[t].buf, T)
                   fresh == create_table_writes(T, TableCatalog_new(last'.arg[1])).table
                   view == ViewOf(tx'[t].snap, tx'[t].buf)
               IN /\ rebuilt.ok
                  /\ rebuilt.columns = fresh.columns
                  /\ Range(fresh.indexes) \subseteq Range(rebuilt.indexes)
                  /\ \A id \in StoredVals : ~IsSome(view[TupleKey(T, id)])
                  /\ \A iid \in 0..1, v \in StoredVals : ~IsSome(view[IdxKey(T, iid, v)])]_vars

====
